---- MODULE Spec2Model ----
(***************************************************************************)
(* A model of viewarr's view transform (src/src/transform.rs), of the      *)
(* host-facing handle that writes it (src/src/lib.rs) and of the widget    *)
(* that owns it (src/src/widget.rs).                                       *)
(*                                                                         *)
(* Numbers.  f32/f64 quantities are exact rationals <<n, d>> in lowest     *)
(* terms with d > 0: the model abstracts floating-point rounding away and  *)
(* draws only finite arguments.  The three non-finite samples an image     *)
(* buffer may hold are the pairs with d = 0.  Rotation angles are whole    *)
(* degrees (every such f32 is exact).                                      *)
(***************************************************************************)
EXTENDS Integers, Sequences, FiniteSets, TLC

VARIABLES
    transform,          \* ArrayViewerWidget.transform : ViewTransform
    pixels,             \* Option<Vec<f64>>
    width,              \* u32
    height,             \* u32
    min_val,            \* f64
    max_val,            \* f64
    original_min_val,   \* f64
    original_max_val,   \* f64
    is_integer,         \* bool
    min_limit_input_text,
    max_limit_input_text,
    texture_dirty,      \* bool
    texture,            \* Option<TextureHandle>: the bitmap it was loaded with
    colorbar_texture,   \* Option<TextureHandle>: the colorbar it was loaded with
    rotation_input_text,    \* String
    rotation_input_focused, \* bool
    stretch_type,       \* StretchType: "Linear" or "Log"
    linear_cb,          \* ContrastBias
    log_cb,             \* ContrastBias
    symmetric_cb,       \* ContrastBias
    standard_colormap,  \* Colormap
    diverging_colormap, \* Colormap
    symmetric_mode,     \* bool
    colormap_reversed,  \* bool
    last,               \* the last call: its name, its arguments, the state before it
    steps,              \* number of calls made so far
    query               \* inputs and results of the pure conversions

imageVars == <<pixels, width, height, min_val, max_val, original_min_val,
               original_max_val, is_integer, min_limit_input_text,
               max_limit_input_text, texture_dirty>>

\* The image data without the dirty flag.
bufferVars == <<pixels, width, height, min_val, max_val, original_min_val,
                original_max_val, is_integer, min_limit_input_text,
                max_limit_input_text>>

displayVars == <<stretch_type, linear_cb, log_cb, symmetric_cb, standard_colormap,
                 diverging_colormap, symmetric_mode, colormap_reversed>>

\* The cached textures and the rotation field of the overlay.
uiVars == <<texture, colorbar_texture, rotation_input_text, rotation_input_focused>>

vars == <<transform, imageVars, displayVars, uiVars, last, steps, query>>

----------------------------------------------------------------------------
(* Bounds of the model. *)

\* Calls per behaviour.
MaxSteps == 3

\* Screen coordinates of the conversion queries range over 0..MaxCoord.
MaxCoord == 6

----------------------------------------------------------------------------
(* Exact rational arithmetic standing for f32/f64 arithmetic.  Each         *)
(* operator takes the value of an argument once, by binding it as the       *)
(* element of a one-element set, as a function takes its arguments by value. *)

Abs(x) == IF x < 0 THEN -x ELSE x

RECURSIVE Gcd(_, _)
Gcd(a0, b0) ==
    CHOOSE r \in
      {(IF b = 0 THEN a ELSE Gcd(b, a % b)) :
         a \in {a0}, b \in {b0}} : TRUE

\* The rational n/d in lowest terms, d # 0.
Q(n0, d0) ==
    CHOOSE r \in
      {(LET s == IF d < 0 THEN -1 ELSE 1
               g == Gcd(Abs(n), Abs(d))
           IN  <<(s * n) \div g, (s * d) \div g>>) :
         n \in {n0}, d \in {d0}} : TRUE

I(n) == <<n, 1>>

\* Common factors are cancelled before multiplying, to keep the integers small.
QAdd(a0, b0) ==
    CHOOSE r \in
      {(LET g == Gcd(a[2], b[2])
           IN  Q(a[1] * (b[2] \div g) + b[1] * (a[2] \div g), (a[2] \div g) * b[2])) :
         a \in {a0}, b \in {b0}} : TRUE
QSub(a0, b0) ==
    CHOOSE r \in
      {(LET g == Gcd(a[2], b[2])
           IN  Q(a[1] * (b[2] \div g) - b[1] * (a[2] \div g), (a[2] \div g) * b[2])) :
         a \in {a0}, b \in {b0}} : TRUE
QMul(a0, b0) ==
    CHOOSE r \in
      {(LET g1 == Gcd(Abs(a[1]), b[2])
               g2 == Gcd(Abs(b[1]), a[2])
           IN  Q((a[1] \div g1) * (b[1] \div g2), (a[2] \div g2) * (b[2] \div g1))) :
         a \in {a0}, b \in {b0}} : TRUE
QDiv(a0, b0) ==
    CHOOSE r \in
      {(QMul(a, IF b[1] < 0 THEN <<-b[2], -b[1]>> ELSE <<b[2], b[1]>>)) :
         a \in {a0}, b \in {b0}} : TRUE
QNeg(a0) ==
    CHOOSE r \in
      {(<<-a[1], a[2]>>) :
         a \in {a0}} : TRUE
QAbs(a0) ==
    CHOOSE r \in
      {(<<Abs(a[1]), a[2]>>) :
         a \in {a0}} : TRUE
\* Comparisons; a pair with denominator 0 compares as an infinity.
QLt(a0, b0) ==
    CHOOSE r \in
      {(LET g0 == Gcd(a[2], b[2])
               g == IF g0 = 0 THEN 1 ELSE g0
           IN  a[1] * (b[2] \div g) < b[1] * (a[2] \div g)) :
         a \in {a0}, b \in {b0}} : TRUE
QLe(a0, b0) ==
    CHOOSE r \in
      {(LET g0 == Gcd(a[2], b[2])
               g == IF g0 = 0 THEN 1 ELSE g0
           IN  a[1] * (b[2] \div g) <= b[1] * (a[2] \div g)) :
         a \in {a0}, b \in {b0}} : TRUE
QMin(a0, b0) ==
    CHOOSE r \in
      {(IF QLt(b, a) THEN b ELSE a) :
         a \in {a0}, b \in {b0}} : TRUE
QMax(a0, b0) ==
    CHOOSE r \in
      {(IF QLt(a, b) THEN b ELSE a) :
         a \in {a0}, b \in {b0}} : TRUE

\* f32::clamp(self, lo, hi)
QClamp(a0, lo0, hi0) ==
    CHOOSE r \in
      {(IF QLt(a, lo) THEN lo ELSE IF QLt(hi, a) THEN hi ELSE a) :
         a \in {a0}, lo \in {lo0}, hi \in {hi0}} : TRUE

\* f32::floor() as i32
QFloor(a) == a[1] \div a[2]

\* Rust's % on numbers: the remainder has the sign of the dividend.
Rem(a, b) == IF a >= 0 THEN a % b ELSE -((-a) % b)

\* Option<T>
None == <<>>
Some(v) == <<v>>

----------------------------------------------------------------------------
(* egui::Vec2, egui::Pos2 and egui::Rect. *)

Vec2(x, y) == <<x, y>>
VZero == Vec2(I(0), I(0))
VAdd(a0, b0) ==
    CHOOSE r \in
      {(<<QAdd(a[1], b[1]), QAdd(a[2], b[2])>>) :
         a \in {a0}, b \in {b0}} : TRUE
VSub(a0, b0) ==
    CHOOSE r \in
      {(<<QSub(a[1], b[1]), QSub(a[2], b[2])>>) :
         a \in {a0}, b \in {b0}} : TRUE
VScale(a0, k0) ==
    CHOOSE r \in
      {(<<QMul(a[1], k), QMul(a[2], k)>>) :
         a \in {a0}, k \in {k0}} : TRUE

\* Vec2::length() < r, as length^2 < r^2
VLengthLt(a, r) ==
    QLt(QAdd(QMul(a[1], a[1]), QMul(a[2], a[2])), QMul(r, r))

RectFromMinSize(min, size) == [min |-> min, max |-> VAdd(min, size)]
RectFromCenterSize(c, size) ==
    [min |-> VSub(c, VScale(size, Q(1, 2))), max |-> VAdd(c, VScale(size, Q(1, 2)))]
RectSize(r) == VSub(r.max, r.min)
RectWidth(r) == QSub(r.max[1], r.min[1])
RectHeight(r) == QSub(r.max[2], r.min[2])
RectCenter(r) == VScale(VAdd(r.min, r.max), Q(1, 2))

\* Rect::contains: both edges included.
RectContains(r, p) ==
    /\ QLe(r.min[1], p[1]) /\ QLe(p[1], r.max[1])
    /\ QLe(r.min[2], p[2]) /\ QLe(p[2], r.max[2])

RectIntersect(a, b) ==
    [min |-> <<QMax(a.min[1], b.min[1]), QMax(a.min[2], b.min[2])>>,
     max |-> <<QMin(a.max[1], b.max[1]), QMin(a.max[2], b.max[2])>>]

----------------------------------------------------------------------------
(* transform.rs: constants and ViewTransform. *)

ZOOM_STEP == Q(5, 4)
SCROLL_ZOOM_STEP == Q(27, 25)
MIN_ZOOM == Q(1, 10)
MAX_ZOOM == I(50)
ROTATION_STEP == 15

\* ViewTransform::default() / new()
NewTransform ==
    [zoom |-> I(1), pan_offset |-> VZero, rotation_degrees |-> 0,
     pivot_point |-> <<I(0), I(0)>>, show_pivot_marker |-> FALSE]

\* Faulty variants of the operations below; each property is also run against
\* the variant that breaks it.
reset_zoom_and_pan_RotationCleared(t) ==
    [t EXCEPT !.zoom = I(1), !.pan_offset = VZero, !.rotation_degrees = 0]

set_rotation_Unwrapped(t, degrees) ==
    [t EXCEPT !.rotation_degrees = Rem(degrees, 360)]

zoom_around_point_PanKept(t, zoom_delta, screen_pos, viewport_center) ==
    [t EXCEPT !.zoom = QClamp(QMul(t.zoom, zoom_delta), MIN_ZOOM, MAX_ZOOM)]

set_zoom_Unclamped(t, level) == [t EXCEPT !.zoom = level]

SetImageTransform_PanAlwaysReset(t, w, h, old_w, old_h) ==
    [t EXCEPT !.pan_offset = VZero,
              !.pivot_point = IF w # old_w \/ h # old_h
                              THEN <<Q(w - 1, 2), Q(h - 1, 2)>>
                              ELSE t.pivot_point]

reset(t) ==
    [t EXCEPT !.zoom = I(1), !.pan_offset = VZero, !.rotation_degrees = 0]

reset_pan(t) == [t EXCEPT !.pan_offset = VZero]

reset_zoom_and_pan(t) == [t EXCEPT !.zoom = I(1), !.pan_offset = VZero]

is_default(t) ==
    /\ QLt(QAbs(QSub(t.zoom, I(1))), Q(1, 1000))
    /\ VLengthLt(t.pan_offset, Q(1, 2))
    /\ Abs(t.rotation_degrees) = 0      \* |rotation| < 0.001 on whole degrees

set_rotation(t, degrees) ==
    LET m == Rem(degrees, 360)
        normalized == IF m > 180 THEN m - 360
                      ELSE IF m < -180 THEN m + 360
                      ELSE m
    IN  [t EXCEPT !.rotation_degrees = normalized]

rotate_by(t, delta_degrees) == set_rotation(t, t.rotation_degrees + delta_degrees)

set_pivot_point(t, x, y) == [t EXCEPT !.pivot_point = <<x, y>>]

set_pivot_to_center_HalfSize(t, image_width, image_height) ==
    [t EXCEPT !.pivot_point = <<Q(image_width, 2), Q(image_height, 2)>>]

set_pivot_to_center(t, image_width, image_height) ==
    [t EXCEPT !.pivot_point = <<QDiv(QSub(I(image_width), I(1)), I(2)),
                                QDiv(QSub(I(image_height), I(1)), I(2))>>]

\* Faulty variant of the operator below: a change of less than 15 counts as
\* no change.
zoom_around_point_CoarseGuard(t, zoom_delta, screen_pos, viewport_center) ==
    IF zoom_delta = I(1) THEN t
    ELSE
      LET old_zoom == t.zoom
          new_zoom == QClamp(QMul(old_zoom, zoom_delta), MIN_ZOOM, MAX_ZOOM)
      IN  IF QLt(QAbs(QSub(new_zoom, old_zoom)), I(15)) THEN t
          ELSE
            LET zoom_ratio == QDiv(new_zoom, old_zoom)
                d == VSub(screen_pos, viewport_center)
            IN  [t EXCEPT
                   !.pan_offset = VAdd(VScale(d, QSub(I(1), zoom_ratio)),
                                       VScale(t.pan_offset, zoom_ratio)),
                   !.zoom = new_zoom]

zoom_around_point(t, zoom_delta, screen_pos, viewport_center) ==
    IF zoom_delta = I(1) THEN t
    ELSE
      LET old_zoom == t.zoom
          new_zoom == QClamp(QMul(old_zoom, zoom_delta), MIN_ZOOM, MAX_ZOOM)
      IN  IF QLt(QAbs(QSub(new_zoom, old_zoom)), Q(1, 10000)) THEN t
          ELSE
            LET zoom_ratio == QDiv(new_zoom, old_zoom)
                d == VSub(screen_pos, viewport_center)
            IN  [t EXCEPT
                   !.pan_offset = VAdd(VScale(d, QSub(I(1), zoom_ratio)),
                                       VScale(t.pan_offset, zoom_ratio)),
                   !.zoom = new_zoom]

\* center : Option<Pos2>
zoom_in(t, center, viewport_center) ==
    LET c == IF center = None THEN viewport_center ELSE center[1]
    IN  zoom_around_point(t, ZOOM_STEP, c, viewport_center)

zoom_out(t, center, viewport_center) ==
    LET c == IF center = None THEN viewport_center ELSE center[1]
    IN  zoom_around_point(t, QDiv(I(1), ZOOM_STEP), c, viewport_center)

pan_by(t, delta) == [t EXCEPT !.pan_offset = VAdd(t.pan_offset, delta)]

center_on_image_point(t, image_pos, image_size, viewport_size, base_image_rect) ==
    LET rel_x == QDiv(image_pos[1], image_size[1])
        rel_y == QDiv(image_pos[2], image_size[2])
        zoomed_size == VScale(RectSize(base_image_rect), t.zoom)
        image_screen_pos == <<QMul(rel_x, zoomed_size[1]), QMul(rel_y, zoomed_size[2])>>
        viewport_center == VScale(viewport_size, Q(1, 2))
        zoomed_center_offset == VScale(VSub(viewport_size, zoomed_size), Q(1, 2))
    IN  [t EXCEPT !.pan_offset =
            VSub(VSub(viewport_center, image_screen_pos), zoomed_center_offset)]

calculate_image_rect(t, viewport_rect, base_display_size) ==
    LET zoomed_size == VScale(base_display_size, t.zoom)
        base_offset == VScale(VSub(RectSize(viewport_rect), base_display_size), Q(1, 2))
        zoom_offset == VScale(VSub(base_display_size, zoomed_size), Q(1, 2))
        final_offset == VAdd(VAdd(base_offset, zoom_offset), t.pan_offset)
    IN  RectFromMinSize(VAdd(viewport_rect.min, final_offset), zoomed_size)

clamp_pan_offset(t, viewport_size, zoomed_image_size) ==
    LET margin == Q(1, 10)
        min_visible == VScale(zoomed_image_size, margin)
        max_pan_x == QSub(zoomed_image_size[1], min_visible[1])
        max_pan_y == QSub(zoomed_image_size[2], min_visible[2])
        min_pan_x == QNeg(QSub(viewport_size[1], min_visible[1]))
        min_pan_y == QNeg(QSub(viewport_size[2], min_visible[2]))
    IN  [t EXCEPT !.pan_offset = <<QClamp(t.pan_offset[1], min_pan_x, max_pan_x),
                                   QClamp(t.pan_offset[2], min_pan_y, max_pan_y)>>]

\* The literal 0.9999999 of the clamps "to [0, 1)".
RelMax == Q(9999999, 10000000)

\* Faulty variants of the conversions below.
screen_to_image_Unclamped(screen_pos, image_rect, image_size) ==
    LET inside == /\ QLe(image_rect.min[1], screen_pos[1])
                  /\ QLe(screen_pos[1], image_rect.max[1])
                  /\ QLe(image_rect.min[2], screen_pos[2])
                  /\ QLe(screen_pos[2], image_rect.max[2])
        w == QSub(image_rect.max[1], image_rect.min[1])
        h == QSub(image_rect.max[2], image_rect.min[2])
        img_x == QFloor(QMul(QDiv(QSub(screen_pos[1], image_rect.min[1]), w),
                             I(image_size[1])))
        img_y == QFloor(QMul(QSub(I(1), QDiv(QSub(screen_pos[2], image_rect.min[2]), h)),
                             I(image_size[2])))
    IN  IF inside /\ img_x >= 0 /\ img_x < image_size[1]
                  /\ img_y >= 0 /\ img_y < image_size[2]
        THEN Some(<<img_x, img_y>>)
        ELSE None

image_to_screen_NoFlip(image_pos, image_rect, image_size) ==
    <<QAdd(image_rect.min[1],
           QMul(QDiv(QAdd(I(image_pos[1]), Q(1, 2)), I(image_size[1])),
                QSub(image_rect.max[1], image_rect.min[1]))),
      QAdd(image_rect.min[2],
           QMul(QDiv(QAdd(I(image_pos[2]), Q(1, 2)), I(image_size[2])),
                QSub(image_rect.max[2], image_rect.min[2])))>>

pivot_to_screen_NoFlip(t, image_rect, image_size) ==
    <<QAdd(image_rect.min[1],
           QMul(QDiv(QAdd(t.pivot_point[1], Q(1, 2)), I(image_size[1])),
                QSub(image_rect.max[1], image_rect.min[1]))),
      QAdd(image_rect.min[2],
           QMul(QDiv(QAdd(t.pivot_point[2], Q(1, 2)), I(image_size[2])),
                QSub(image_rect.max[2], image_rect.min[2])))>>

\* image_size : (u32, u32) as a pair of integers; the result is Option<(u32, u32)>.
screen_to_image(screen_pos, image_rect, image_size) ==
    IF ~RectContains(image_rect, screen_pos) THEN None
    ELSE
      LET rx == QDiv(QSub(screen_pos[1], image_rect.min[1]), RectWidth(image_rect))
          ry == QSub(I(1), QDiv(QSub(screen_pos[2], image_rect.min[2]),
                                RectHeight(image_rect)))
          rel_x == QClamp(rx, I(0), RelMax)
          rel_y == QClamp(ry, I(0), RelMax)
          img_x == QFloor(QMul(rel_x, I(image_size[1])))
          img_y == QFloor(QMul(rel_y, I(image_size[2])))
      IN  IF img_x >= 0 /\ img_x < image_size[1] /\ img_y >= 0 /\ img_y < image_size[2]
          THEN Some(<<img_x, img_y>>)
          ELSE None

image_to_screen(image_pos, image_rect, image_size) ==
    LET rel_x == QDiv(QAdd(I(image_pos[1]), Q(1, 2)), I(image_size[1]))
        rel_y == QSub(I(1), QDiv(QAdd(I(image_pos[2]), Q(1, 2)), I(image_size[2])))
    IN  <<QAdd(image_rect.min[1], QMul(rel_x, RectWidth(image_rect))),
          QAdd(image_rect.min[2], QMul(rel_y, RectHeight(image_rect)))>>

\* The same conversion as screen_to_image, written out a second time in the
\* source; the current rotation is not read.
screen_to_image_for_pivot(t, screen_pos, image_rect, image_size) ==
    IF ~RectContains(image_rect, screen_pos) THEN None
    ELSE
      LET rx == QDiv(QSub(screen_pos[1], image_rect.min[1]), RectWidth(image_rect))
          ry == QSub(I(1), QDiv(QSub(screen_pos[2], image_rect.min[2]),
                                RectHeight(image_rect)))
          rel_x == QClamp(rx, I(0), RelMax)
          rel_y == QClamp(ry, I(0), RelMax)
          img_x == QFloor(QMul(rel_x, I(image_size[1])))
          img_y == QFloor(QMul(rel_y, I(image_size[2])))
      IN  IF img_x >= 0 /\ img_x < image_size[1] /\ img_y >= 0 /\ img_y < image_size[2]
          THEN Some(<<img_x, img_y>>)
          ELSE None

pivot_to_screen(t, image_rect, image_size) ==
    LET rel_x == QDiv(QAdd(t.pivot_point[1], Q(1, 2)), I(image_size[1]))
        rel_y == QSub(I(1), QDiv(QAdd(t.pivot_point[2], Q(1, 2)), I(image_size[2])))
    IN  <<QAdd(image_rect.min[1], QMul(rel_x, RectWidth(image_rect))),
          QAdd(image_rect.min[2], QMul(rel_y, RectHeight(image_rect)))>>

----------------------------------------------------------------------------
(* lib.rs: the ViewerHandle methods that read or write the transform. *)

\* The fit-to-view size of a w x h image in a viewport (lib.rs and widget.rs
\* compute it the same way).
base_display_size(img_width, img_height, viewport_width, viewport_height) ==
    LET img_aspect == QDiv(I(img_width), I(img_height))
        viewport_aspect == QDiv(viewport_width, viewport_height)
    IN  IF QLt(viewport_aspect, img_aspect)
        THEN <<viewport_width, QDiv(viewport_width, img_aspect)>>
        ELSE <<QMul(viewport_height, img_aspect), viewport_height>>

\* ViewerHandle::set_zoom
set_zoom(t, level) == [t EXCEPT !.zoom = QClamp(level, MIN_ZOOM, MAX_ZOOM)]

\* ViewerHandle::get_view_bounds; the result is <<xmin, xmax, ymin, ymax>>.
get_view_bounds(t, has_image, img_width, img_height, viewport_width, viewport_height) ==
    IF ~has_image THEN <<I(0), I(0), I(0), I(0)>>
    ELSE
      LET viewport_size == <<viewport_width, viewport_height>>
          viewport_rect == RectFromMinSize(VZero, viewport_size)
          base == base_display_size(img_width, img_height, viewport_width, viewport_height)
          image_rect == calculate_image_rect(t, viewport_rect, base)
          visible_screen == RectIntersect(viewport_rect, image_rect)
      IN  IF QLe(RectWidth(visible_screen), I(0)) \/ QLe(RectHeight(visible_screen), I(0))
          THEN <<I(0), I(0), I(0), I(0)>>
          ELSE
            LET rel_x_min == QDiv(QSub(visible_screen.min[1], image_rect.min[1]),
                                  RectWidth(image_rect))
                rel_x_max == QDiv(QSub(visible_screen.max[1], image_rect.min[1]),
                                  RectWidth(image_rect))
                rel_y_max == QSub(I(1), QDiv(QSub(visible_screen.min[2], image_rect.min[2]),
                                             RectHeight(image_rect)))
                rel_y_min == QSub(I(1), QDiv(QSub(visible_screen.max[2], image_rect.min[2]),
                                             RectHeight(image_rect)))
            IN  <<QMax(QMul(rel_x_min, I(img_width)), I(0)),
                  QMin(QMul(rel_x_max, I(img_width)), I(img_width)),
                  QMax(QMul(rel_y_min, I(img_height)), I(0)),
                  QMin(QMul(rel_y_max, I(img_height)), I(img_height))>>

\* ViewerHandle::set_view_bounds
set_view_bounds(t, has_image, img_width, img_height, xmin, xmax, ymin, ymax, viewport_width, viewport_height) ==
    IF ~has_image THEN t
    ELSE
      LET viewport_size == <<viewport_width, viewport_height>>
          region_width == QSub(xmax, xmin)
          region_height == QSub(ymax, ymin)
      IN  IF QLe(region_width, I(0)) \/ QLe(region_height, I(0)) THEN t
          ELSE
            LET base == base_display_size(img_width, img_height,
                                          viewport_width, viewport_height)
                zoom_x == QMul(QDiv(I(img_width), region_width),
                               QDiv(base[1], viewport_width))
                zoom_y == QMul(QDiv(I(img_height), region_height),
                               QDiv(base[2], viewport_height))
                zoom == QClamp(QMin(zoom_x, zoom_y), MIN_ZOOM, MAX_ZOOM)
                center_x == QDiv(QAdd(xmin, xmax), I(2))
                center_y == QDiv(QAdd(ymin, ymax), I(2))
            IN  center_on_image_point(
                    [t EXCEPT !.zoom = zoom],
                    <<center_x, center_y>>,
                    <<I(img_width), I(img_height)>>,
                    viewport_size,
                    RectFromCenterSize(VScale(viewport_size, Q(1, 2)), base))

----------------------------------------------------------------------------
(* widget.rs: ArrayViewerWidget::set_image and what it calls. *)

DEFAULT_CONTRAST == I(1)
DEFAULT_BIAS == Q(1, 2)
MAX_CONTRAST == I(10)
MIN_CONTRAST == I(0)

\* ContrastBias::default()
DefaultContrastBias == [contrast |-> DEFAULT_CONTRAST, bias |-> DEFAULT_BIAS]

\* f64 samples: finite ones are rationals, the others have denominator 0.
NaN == <<0, 0>>
INFINITY == <<1, 0>>
NEG_INFINITY == <<-1, 0>>
is_finite(v) == v[2] # 0

\* v as i64: truncation towards zero.
AsI64(v) == IF v[1] >= 0 THEN v[1] \div v[2] ELSE -((-v[1]) \div v[2])

\* format_scientific(v): the text is kept as the format chosen and the value.
format_scientific(v) ==
    IF v = I(0) THEN [fmt |-> "0", v |-> I(0)]
    ELSE IF QLe(I(10000), QAbs(v)) \/ QLt(QAbs(v), Q(1, 100))
         THEN [fmt |-> "{:.2e}", v |-> v]
         ELSE [fmt |-> "{:.2}", v |-> v]

\* format!("{}", v as i64)
format_integer(v) == [fmt |-> "{}", v |-> I(AsI64(v))]

\* Samples far below f64::EPSILON (2^-52) or far above 2^53 are no ratios of
\* the checker's integers.  Such an f64 is written <<n, d, e>> for
\* n/d * 2^e, with e = -60 or e = 60 and 1/64 <= |n/d| < 128; a pair <<n, d>>
\* is n/d as before.
Exponent(v) == IF Len(v) = 3 THEN v[3] ELSE 0
Mantissa(v) == <<v[1], v[2]>>

\* The order of magnitude of v and its sign: 0 for 0.
ScaleRank(v) ==
    IF v[1] = 0 THEN 0
    ELSE (IF v[1] < 0 THEN -1 ELSE 1)
           * (IF Exponent(v) < 0 THEN 1 ELSE IF Exponent(v) = 0 THEN 2 ELSE 3)

\* a < b on f64.
f64_lt(a, b) ==
    IF ~is_finite(a) \/ ~is_finite(b) \/ Exponent(a) = Exponent(b)
    THEN QLt(Mantissa(a), Mantissa(b))
    ELSE ScaleRank(a) < ScaleRank(b)

\* (hi - lo).abs() < f64::EPSILON on finite f64: pairs of the model are equal
\* or at least 1/1000 apart; values of scale 2^-60 are less than 2^-52 apart;
\* values of scale 2^60 are equal or far apart.
f64_collapsed(lo, hi) ==
    IF Exponent(lo) = Exponent(hi)
    THEN IF Exponent(lo) < 0 THEN QLt(QAbs(QSub(Mantissa(hi), Mantissa(lo))), I(256))
         ELSE hi = lo
    ELSE (lo[1] = 0 \/ Exponent(lo) < 0) /\ (hi[1] = 0 \/ Exponent(hi) < 0)

\* v + 1.0 on f64, rounded to nearest: below 2^-53 the sum is 1.0, above 2^54
\* it is v.
f64_add_one(v) ==
    IF Exponent(v) = 0 THEN QAdd(v, I(1))
    ELSE IF Exponent(v) < 0 THEN I(1)
    ELSE v

\* The loop of set_image over the samples pix[i..]: acc = <<min_val, max_val>>.
RECURSIVE ScanMinMax(_, _, _)
ScanMinMax(pix, i, acc) ==
    IF i > Len(pix) THEN acc
    ELSE
      LET v == pix[i]
          lo == IF is_finite(v) /\ f64_lt(v, acc[1]) THEN v ELSE acc[1]
          hi == IF is_finite(v) /\ f64_lt(acc[2], v) THEN v ELSE acc[2]
      IN  ScanMinMax(pix, i + 1, <<lo, hi>>)

\* The range set_image computes.
ComputeRange(pix) ==
    LET s == ScanMinMax(pix, 1, <<INFINITY, NEG_INFINITY>>)
        lo == IF ~is_finite(s[1]) THEN I(0) ELSE s[1]
        hi0 == IF ~is_finite(s[2]) THEN I(1) ELSE s[2]
        hi == IF f64_collapsed(lo, hi0) THEN f64_add_one(lo) ELSE hi0
    IN  <<lo, hi>>

\* The transform after set_image(_, w, h, _).
SetImageTransform(t, w, h, old_w, old_h) ==
    LET dimensions_changed == w # old_w \/ h # old_h
    IN  IF dimensions_changed
        THEN set_pivot_to_center(reset_pan(t), w, h)
        ELSE t

----------------------------------------------------------------------------
(* widget.rs and colormap.rs: stretch, contrast/bias and colormap.  The     *)
(* operations take and return the record d of the widget's display fields.  *)

\* Colormap::is_diverging
is_diverging(colormap) == colormap \in {"RdBu", "RdYlBu"}

toggle_stretch_type(d) ==
    [d EXCEPT !.stretch_type = IF d.stretch_type = "Linear" THEN "Log" ELSE "Linear",
              !.texture_dirty = TRUE]

set_stretch_type(d, type) ==
    IF d.stretch_type # type
    THEN [d EXCEPT !.stretch_type = type,
                   !.symmetric_mode = IF type = "Log" /\ d.symmetric_mode
                                      THEN FALSE ELSE d.symmetric_mode,
                   !.texture_dirty = TRUE]
    ELSE d

current_contrast_bias(d) ==
    IF d.symmetric_mode
    THEN [contrast |-> d.symmetric_cb.contrast, bias |-> DEFAULT_BIAS]
    ELSE IF d.stretch_type = "Linear" THEN d.linear_cb ELSE d.log_cb

\* Faulty variants of the operators below.
current_contrast_bias_mut_IgnoresStretchType(d) ==
    IF d.symmetric_mode THEN "symmetric_cb" ELSE "linear_cb"

\* current_contrast_bias_mut: the name of the field the reference points to.
current_contrast_bias_mut(d) ==
    IF d.symmetric_mode THEN "symmetric_cb"
    ELSE IF d.stretch_type = "Linear" THEN "linear_cb" ELSE "log_cb"

\* Faulty variants of the operators below.
set_contrast_Unclamped(d, contrast) ==
    [d EXCEPT ![current_contrast_bias_mut(d)].contrast = contrast,
              !.texture_dirty = TRUE]

set_bias_InSymmetric(d, bias) ==
    [d EXCEPT ![current_contrast_bias_mut(d)].bias = QClamp(bias, I(0), I(1)),
              !.texture_dirty = TRUE]

set_contrast(d, contrast) ==
    [d EXCEPT ![current_contrast_bias_mut(d)].contrast =
                  QClamp(contrast, MIN_CONTRAST, MAX_CONTRAST),
              !.texture_dirty = TRUE]

set_bias(d, bias) ==
    IF ~d.symmetric_mode
    THEN [d EXCEPT ![current_contrast_bias_mut(d)].bias = QClamp(bias, I(0), I(1)),
                   !.texture_dirty = TRUE]
    ELSE d

adjust_contrast_bias(d, dx, dy, viewport_size) ==
    LET is_symmetric == d.symmetric_mode
        slot == current_contrast_bias_mut(d)
        cb == d[slot]
        bias == IF ~is_symmetric
                THEN QClamp(QAdd(cb.bias, QDiv(dx, viewport_size[1])), I(0), I(1))
                ELSE cb.bias
        contrast == QClamp(QSub(cb.contrast,
                                QMul(QDiv(dy, viewport_size[2]), MAX_CONTRAST)),
                           MIN_CONTRAST, MAX_CONTRAST)
    IN  [d EXCEPT ![slot] = [contrast |-> contrast, bias |-> bias],
                  !.texture_dirty = TRUE]

reset_current_stretch(d) ==
    [d EXCEPT ![current_contrast_bias_mut(d)] = DefaultContrastBias,
              !.texture_dirty = TRUE]

reset_all_stretch(d) ==
    [d EXCEPT !.linear_cb = DefaultContrastBias,
              !.log_cb = DefaultContrastBias,
              !.symmetric_cb = DefaultContrastBias,
              !.stretch_type = "Linear",
              !.texture_dirty = TRUE]

colormap(d) == IF d.symmetric_mode THEN d.diverging_colormap ELSE d.standard_colormap

\* Faulty variants of the operators below.
set_colormap_Unclassified(d, cm) ==
    IF d.symmetric_mode
    THEN [d EXCEPT !.diverging_colormap = cm, !.texture_dirty = TRUE]
    ELSE [d EXCEPT !.standard_colormap = cm, !.texture_dirty = TRUE]

set_symmetric_ResetsPalette(d, enabled) ==
    IF d.symmetric_mode # enabled
    THEN [d EXCEPT !.symmetric_mode = enabled,
                   !.standard_colormap = "Grayscale",
                   !.texture_dirty = TRUE]
    ELSE d

set_colormap(d, cm) ==
    IF is_diverging(cm)
    THEN [d EXCEPT !.diverging_colormap = cm, !.texture_dirty = TRUE]
    ELSE [d EXCEPT !.standard_colormap = cm, !.texture_dirty = TRUE]

set_symmetric(d, enabled) ==
    IF d.symmetric_mode # enabled
    THEN [d EXCEPT !.symmetric_mode = enabled, !.texture_dirty = TRUE]
    ELSE d

toggle_symmetric(d) == set_symmetric(d, ~d.symmetric_mode)

toggle_reverse(d) ==
    [d EXCEPT !.colormap_reversed = ~d.colormap_reversed, !.texture_dirty = TRUE]

\* ViewerHandle::get_stretch_mode
get_stretch_mode(d) ==
    IF d.symmetric_mode THEN "symmetric"
    ELSE IF d.stretch_type = "Linear" THEN "linear" ELSE "log"

LOG_EXPONENT == I(1000)

\* ArrayViewerWidget::scaling_range
scaling_range(lo, hi, d) ==
    IF d.symmetric_mode
    THEN LET abs_max == QMax(QAbs(lo), QAbs(hi)) IN <<QNeg(abs_max), abs_max>>
    ELSE <<lo, hi>>

\* f64::log10 on [1, 10000): exact at the powers of ten and linear between
\* them, an approximation within 0.09 that keeps log10(1) = 0 and the order.
Log10(y) ==
    IF QLt(y, I(10)) THEN QDiv(QSub(y, I(1)), I(9))
    ELSE IF QLt(y, I(100)) THEN QAdd(I(1), QDiv(QSub(y, I(10)), I(90)))
    ELSE IF QLt(y, I(1000)) THEN QAdd(I(2), QDiv(QSub(y, I(100)), I(900)))
    ELSE QAdd(I(3), QDiv(QSub(y, I(1000)), I(9000)))

apply_stretch(x, type) ==
    IF type = "Linear" THEN x
    ELSE QDiv(Log10(QAdd(QMul(LOG_EXPONENT, x), I(1))), Log10(LOG_EXPONENT))

apply_contrast_bias(x, contrast, bias) ==
    QClamp(QAdd(QMul(QSub(x, bias), contrast), Q(1, 2)), I(0), I(1))

\* range.abs() > f64::EPSILON is range # 0 on the ranges of the model.
apply_full_stretch(v, scale_min, scale_max, cb, type) ==
    LET range == QSub(scale_max, scale_min)
        normalized == IF is_finite(v) /\ range # I(0)
                      THEN QClamp(QDiv(QSub(v, scale_min), range), I(0), I(1))
                      ELSE I(0)
        stretched == apply_stretch(normalized, type)
    IN  apply_contrast_bias(stretched, cb.contrast, cb.bias)

\* (t * 255.0) as u8 / as usize, then min(255): the palette index.
PaletteIndex(t) ==
    LET idx == QFloor(QMul(t, I(255))) IN IF idx > 255 THEN 255 ELSE idx

\* Colormap::map.  A table palette's colour is kept as the index into its
\* 256-entry table; Grayscale's is the gray level on the three channels.
map(cm, t0) ==
    LET t == QClamp(t0, I(0), I(1))
        v == PaletteIndex(t)
    IN  IF cm = "Grayscale"
        THEN [index |-> v, rgb |-> <<v, v, v>>]
        ELSE [index |-> v, lut |-> cm]

\* build_color_image: the value handed to colormap.map for sample v.
AdjustedValue(v, lo, hi, d) ==
    LET range == scaling_range(lo, hi, d)
        adjusted == apply_full_stretch(v, range[1], range[2], current_contrast_bias(d),
                                       d.stretch_type)
    IN  IF d.colormap_reversed THEN QSub(I(1), adjusted) ELSE adjusted

\* build_color_image: the colour of sample v in the bitmap.
PixelColor(v, lo, hi, d) == map(colormap(d), AdjustedValue(v, lo, hi, d))

\* ArrayViewerWidget::build_color_image: Option of the sequence of colours.
build_color_image(pix, lo, hi, d) ==
    IF pix = None THEN None
    ELSE Some([i \in 1..Len(pix[1]) |-> PixelColor(pix[1][i], lo, hi, d)])

----------------------------------------------------------------------------
(* widget.rs: display limits, the text fields and the cached textures.  The *)
(* operations take and return the record w of all the widget's fields.      *)

\* A text the user typed into a field, as opposed to one the widget wrote.
Typed(s) == [fmt |-> "typed", v |-> s]

\* str::trim on the texts of the model.
Trim(s) ==
    CASE s = " 20 " -> "20"
      [] s = " 90" -> "90"
      [] OTHER -> s

\* str::parse::<f64> / ::<f32> on the texts of the model: Ok(v) is Some(v)
\* and Err is None.
ParseNumber(s) ==
    CASE s = "20" -> Some(I(20))
      [] s = "-5" -> Some(I(-5))
      [] s = "7.5" -> Some(Q(15, 2))
      [] s = "90" -> Some(I(90))
      [] s = "-540" -> Some(I(-540))
      [] s = "0" -> Some(I(0))
      [] OTHER -> None

\* x rounded to the nearest multiple of 1/scale, half away from zero.
RoundTo(x, scale) ==
    LET n == QFloor(QAdd(QMul(QAbs(x), I(scale)), Q(1, 2)))
    IN  IF QLt(x, I(0)) THEN Q(-n, scale) ELSE Q(n, scale)

\* x # 0 rounded to three significant digits.
RECURSIVE RoundSig3(_)
RoundSig3(x) ==
    IF QLe(I(1000), QAbs(x)) THEN QMul(I(10), RoundSig3(QDiv(x, I(10))))
    ELSE IF QLt(QAbs(x), I(100)) THEN QDiv(RoundSig3(QMul(x, I(10))), I(10))
    ELSE RoundTo(x, 1)

\* The number a text written by the widget reads back as: the value rounded
\* to the digits its format prints.
WrittenValue(text) ==
    CASE text.fmt = "{:.2}" -> RoundTo(text.v, 100)
      [] text.fmt = "{:.2e}" -> RoundSig3(text.v)
      [] text.fmt = "{:.1}" -> RoundTo(text.v, 10)
      [] OTHER -> text.v

\* text.parse() of a field's text.
parse(text) == IF text.fmt = "typed" THEN ParseNumber(text.v) ELSE Some(WrittenValue(text))

\* text.trim().parse() of a field's text.
trim_parse(text) ==
    IF text.fmt = "typed" THEN ParseNumber(Trim(text.v)) ELSE Some(WrittenValue(text))

\* The text a limit field is reset to: the integer or the scientific format.
format_limit(v, is_int) == IF is_int THEN format_integer(v) ELSE format_scientific(v)

\* Faulty variants of the operators below.
set_min_val_NotDirty(w, v) ==
    IF w.min_val # v
    THEN [w EXCEPT !.min_val = v, !.min_limit_input_text = format_scientific(v)]
    ELSE w

\* ArrayViewerWidget::set_min_val.  The comparison > 1e-15 is # on the values
\* of the model, which are at least 1/100 apart.
set_min_val(w, v) ==
    IF w.min_val # v
    THEN [w EXCEPT !.min_val = v,
                   !.min_limit_input_text = format_scientific(v),
                   !.texture_dirty = TRUE]
    ELSE w

set_max_val(w, v) ==
    IF w.max_val # v
    THEN [w EXCEPT !.max_val = v,
                   !.max_limit_input_text = format_scientific(v),
                   !.texture_dirty = TRUE]
    ELSE w

set_value_range(w, lo, hi) == set_max_val(set_min_val(w, lo), hi)

value_range(w) == <<w.min_val, w.max_val>>

\* ArrayViewerWidget::is_limits_modified (> 1e-10 is # on the model's values)
is_limits_modified(w) ==
    w.min_val # w.original_min_val \/ w.max_val # w.original_max_val

\* Faulty variant of reset_limits.
reset_limits_MinOnly(w) ==
    [w EXCEPT !.min_val = w.original_min_val,
              !.min_limit_input_text = format_limit(w.original_min_val, w.is_integer),
              !.texture_dirty = TRUE]

reset_limits(w) ==
    [w EXCEPT !.min_val = w.original_min_val,
              !.max_val = w.original_max_val,
              !.min_limit_input_text = format_limit(w.original_min_val, w.is_integer),
              !.max_limit_input_text = format_limit(w.original_max_val, w.is_integer),
              !.texture_dirty = TRUE]

reset_display(w) == reset_limits(reset_current_stretch(w))

\* Faulty variant of the operator below: the text stays after a parse error.
commit_max_limit_KeepsText(w) ==
    LET parsed == trim_parse(w.max_limit_input_text)
    IN  IF parsed # None /\ w.max_val # parsed[1]
        THEN [w EXCEPT !.max_val = parsed[1], !.texture_dirty = TRUE]
        ELSE w

\* render_colorbar: the maximum field is committed (focus lost or Enter).
commit_max_limit(w) ==
    LET parsed == trim_parse(w.max_limit_input_text)
    IN  IF parsed # None
        THEN IF w.max_val # parsed[1]
             THEN [w EXCEPT !.max_val = parsed[1], !.texture_dirty = TRUE]
             ELSE w
        ELSE [w EXCEPT !.max_limit_input_text = format_limit(w.max_val, w.is_integer)]

\* render_colorbar: the minimum field is committed.
commit_min_limit(w) ==
    LET parsed == trim_parse(w.min_limit_input_text)
    IN  IF parsed # None
        THEN IF w.min_val # parsed[1]
             THEN [w EXCEPT !.min_val = parsed[1], !.texture_dirty = TRUE]
             ELSE w
        ELSE [w EXCEPT !.min_limit_input_text = format_limit(w.min_val, w.is_integer)]

\* The rows of the 256-row colorbar the model keeps.
ColorbarRows == {0, 64, 128, 255}

\* rebuild_colorbar_texture: the colour of row y (t = y / 255).
ColorbarImage(w) ==
    LET cb == current_contrast_bias(w)
    IN  [y \in ColorbarRows |->
           LET stretched == apply_stretch(Q(y, 255), w.stretch_type)
               adjusted == apply_contrast_bias(stretched, cb.contrast, cb.bias)
           IN  map(colormap(w), IF w.colormap_reversed THEN QSub(I(1), adjusted)
                                ELSE adjusted)]

\* The ColorImage build_color_image returns, with its size.
ColorImage(w) ==
    LET image == build_color_image(w.pixels, w.min_val, w.max_val, w)
    IN  IF image = None THEN None
        ELSE Some([size |-> <<w.width, w.height>>, pixels |-> image[1]])

\* ArrayViewerWidget::rebuild_texture
rebuild_texture(w) ==
    [w EXCEPT !.texture = IF ColorImage(w) # None THEN ColorImage(w) ELSE @,
              !.colorbar_texture = Some(ColorbarImage(w))]

\* show(): the texture check at the start of a frame.
\* Faulty variant first: the flag is cleared without a rebuild.
refresh_texture_NoRebuild(w) ==
    IF w.texture_dirty THEN [w EXCEPT !.texture_dirty = FALSE] ELSE w

refresh_texture(w) ==
    IF w.texture_dirty
    THEN rebuild_texture([w EXCEPT !.texture_dirty = FALSE])
    ELSE w

----------------------------------------------------------------------------
(* widget.rs: one frame of show().  The input e of a frame says which       *)
(* controls were used in it; the pointer is not over the image.             *)

\* ArrayViewerWidget::is_default_view
is_default_view(w) == is_default(w.transform)

\* ArrayViewerWidget::is_stretch_modified (>= 0.001 is # on the model's values)
is_stretch_modified(w) ==
    IF w.symmetric_mode THEN w.symmetric_cb.contrast # DEFAULT_CONTRAST
    ELSE current_contrast_bias(w) # DefaultContrastBias

is_display_modified(w) == is_stretch_modified(w) \/ is_limits_modified(w)

\* ArrayViewerWidget::is_pivot_at_center on the record w.
pivot_at_center(w) ==
    LET center_x == QDiv(QSub(I(w.width), I(1)), I(2))
        center_y == QDiv(QSub(I(w.height), I(1)), I(2))
    IN  /\ QLt(QAbs(QSub(w.transform.pivot_point[1], center_x)), Q(1, 2))
        /\ QLt(QAbs(QSub(w.transform.pivot_point[2], center_y)), Q(1, 2))

\* format!("{:.1}", self.transform.rotation())
format_rotation(w) == [fmt |-> "{:.1}", v |-> I(w.transform.rotation_degrees)]

\* ZoomAction values.
NoAction == <<"None">>

\* render_zoom_controls: the action of the zoom buttons.  The buttons are
\* visited in the order reset, minus, plus and a later click overwrites.
render_zoom_controls(w, e) ==
    LET a1 == IF ~is_default_view(w) /\ "reset_zoom" \in e.clicks
              THEN <<"Reset">> ELSE NoAction
        a2 == IF "zoom_out" \in e.clicks THEN <<"ZoomOut">> ELSE a1
    IN  IF "zoom_in" \in e.clicks THEN <<"ZoomIn">> ELSE a2

\* render_rotation_controls: the widget after the text field was handled,
\* and the action returned.
render_rotation_controls(w, e) ==
    LET a1 == IF "toggle_pivot" \in e.clicks THEN <<"TogglePivotMarker">> ELSE NoAction
        a2 == IF ~pivot_at_center(w) /\ "reset_pivot" \in e.clicks
              THEN <<"ResetPivot">> ELSE a1
        a3 == IF w.transform.rotation_degrees # 0 /\ "reset_rotation" \in e.clicks
              THEN <<"ResetRotation">> ELSE a2
        a4 == IF "ccw" \in e.clicks THEN <<"RotateBy", ROTATION_STEP>> ELSE a3
        \* the TextEdit writes what was typed into the buffer
        w1 == IF e.rotation_edit # None
              THEN [w EXCEPT !.rotation_input_text = Typed(e.rotation_edit[1])]
              ELSE w
        w2 == IF e.rotation_gained_focus
              THEN [w1 EXCEPT !.rotation_input_focused = TRUE]
              ELSE w1
        committed == e.rotation_lost_focus \/ (w2.rotation_input_focused /\ e.enter)
        parsed == parse(w2.rotation_input_text)
        current == w2.transform.rotation_degrees
        w3 == IF ~committed THEN w2
              ELSE IF parsed # None
                   THEN [w2 EXCEPT !.rotation_input_focused = FALSE]
                   ELSE [w2 EXCEPT !.rotation_input_focused = FALSE,
                                   !.rotation_input_text = format_rotation(w2)]
        a5 == IF committed /\ parsed # None /\ parsed[1] # I(current)
              THEN <<"RotateBy", parsed[1][1] - current>>
              ELSE a4
        a6 == IF "cw" \in e.clicks THEN <<"RotateBy", -ROTATION_STEP>> ELSE a5
    IN  [w |-> w3, action |-> a6]

\* render_colorbar: the two limit fields and the reset button.
render_colorbar(w, e) ==
    LET w1 == IF e.max_edit # None
              THEN [w EXCEPT !.max_limit_input_text = Typed(e.max_edit[1])]
              ELSE w
        w2 == IF e.max_commit THEN commit_max_limit(w1) ELSE w1
        w3 == IF e.min_edit # None
              THEN [w2 EXCEPT !.min_limit_input_text = Typed(e.min_edit[1])]
              ELSE w2
        w4 == IF e.min_commit THEN commit_min_limit(w3) ELSE w3
    IN  IF is_display_modified(w4) /\ "reset_display" \in e.clicks
        THEN reset_display(w4)
        ELSE w4

\* Faulty variant of the operator below: the rotation action goes first.
combined_zoom_action_RotationFirst(zoom_action, rotation_action) ==
    IF rotation_action # NoAction THEN rotation_action ELSE zoom_action

\* show(): the action applied out of the two the overlays returned.
combined_zoom_action(zoom_action, rotation_action) ==
    IF zoom_action # NoAction THEN zoom_action ELSE rotation_action

\* show(): match combined_zoom_action
apply_zoom_action(w, action, viewport_center) ==
    CASE action[1] = "None" -> w
      [] action[1] = "ZoomIn" ->
           [w EXCEPT !.transform = zoom_in(w.transform, None, viewport_center)]
      [] action[1] = "ZoomOut" ->
           [w EXCEPT !.transform = zoom_out(w.transform, None, viewport_center)]
      [] action[1] = "Reset" ->
           [w EXCEPT !.transform = reset_zoom_and_pan(w.transform)]
      [] action[1] = "ResetRotation" ->
           IF w.transform.rotation_degrees # 0
           THEN [w EXCEPT !.transform = set_rotation(w.transform, 0),
                          !.rotation_input_text =
                              IF ~w.rotation_input_focused
                              THEN [fmt |-> "0.0", v |-> I(0)] ELSE @]
           ELSE w
      [] action[1] = "RotateBy" ->
           LET t == rotate_by(w.transform, action[2])
           IN  [w EXCEPT !.transform = t,
                         !.rotation_input_text =
                             IF ~w.rotation_input_focused
                             THEN [fmt |-> "{:.1}", v |-> I(t.rotation_degrees)]
                             ELSE @]
      [] action[1] = "TogglePivotMarker" ->
           [w EXCEPT !.transform.show_pivot_marker = ~w.transform.show_pivot_marker]
      [] action[1] = "ResetPivot" ->
           [w EXCEPT !.transform = set_pivot_to_center(w.transform, w.width, w.height)]

\* show(): match stretch_action
apply_stretch_action(w, action) ==
    CASE action[1] = "None" -> w
      [] action[1] = "SetLinear" -> set_stretch_type(set_symmetric(w, FALSE), "Linear")
      [] action[1] = "SetLog" -> set_stretch_type(set_symmetric(w, FALSE), "Log")
      [] action[1] = "SetDiverging" -> set_symmetric(set_stretch_type(w, "Linear"), TRUE)
      [] action[1] = "SetColormap" -> set_colormap(w, action[2])
      [] action[1] = "ToggleReverse" -> toggle_reverse(w)
      [] action[1] = "ResetStretch" -> reset_current_stretch(w)

\* handle_keyboard_input: the shortcuts, skipped while a text field has the
\* focus.
handle_keyboard_input(w, e) ==
    IF e.text_focused THEN w
    ELSE LET viewport_center == RectCenter(e.viewport)
             t1 == IF "=" \in e.keys THEN zoom_in(w.transform, None, viewport_center)
                   ELSE w.transform
             t2 == IF "-" \in e.keys THEN zoom_out(t1, None, viewport_center) ELSE t1
         IN  [w EXCEPT !.transform = IF "0" \in e.keys THEN reset_zoom_and_pan(t2) ELSE t2]

\* show() once an image is known to be loaded: the right-button drag (w2),
\* the overlays with their text fields (c), the zoom action (w4), the stretch
\* action.  Each intermediate widget is bound as the element of a
\* one-element set.
show_image(w1, e) ==
    CHOOSE r \in
      {apply_stretch_action(w4, e.stretch_action) :
         w4 \in {apply_zoom_action(c.w, combined_zoom_action(c.zoom_action, c.action),
                                   RectCenter(e.viewport)) :
           c \in {[w |-> render_colorbar(rotation.w, e),
                   zoom_action |-> render_zoom_controls(rotation.w2, e),
                   action |-> rotation.action] :
             rotation \in {[w2 |-> w2] @@ render_rotation_controls(w2, e) :
               w2 \in {IF e.drag # None
                       THEN adjust_contrast_bias(w1, e.drag[1][1], e.drag[1][2],
                                                 e.available_size)
                       ELSE w1}}}}} : TRUE

\* ArrayViewerWidget::show with the input e: the texture check, the keyboard
\* shortcuts, and the rest only if an image is loaded.
show(w, e) ==
    CHOOSE r \in
      {IF w1.pixels = None THEN w1 ELSE show_image(w1, e) :
         w1 \in {handle_keyboard_input(w0, e) : w0 \in {refresh_texture(w)}}} : TRUE

\* ArrayViewerWidget::set_rotation (the widget's, which also writes the text)
widget_set_rotation(w, degrees) ==
    LET t == set_rotation(w.transform, degrees)
    IN  [w EXCEPT !.transform = t,
                  !.rotation_input_text =
                      IF ~w.rotation_input_focused
                      THEN [fmt |-> "{:.1}", v |-> I(t.rotation_degrees)] ELSE @]

----------------------------------------------------------------------------
(* The arguments the calls are made with. *)

\* Viewport rects handed in by the host.
Viewports == {RectFromMinSize(<<I(2), I(1)>>, <<I(8), I(6)>>)}

\* Pointer positions.
ScreenPositions == {<<I(1), I(5)>>, <<Q(11, 2), I(2)>>}

\* Zoom factors: no change, a doubling, and factors that leave
\* [MIN_ZOOM, MAX_ZOOM] in one call.
ZoomDeltas == {I(1), I(2), I(64), Q(1, 64)}

PanDeltas == {<<I(3), I(-2)>>}

\* Angles in degrees, with the boundary cases of the normalization.
Angles == {-540, -180, 180, 270}
AngleDeltas == {ROTATION_STEP, -ROTATION_STEP}

ZoomLevels == {Q(1, 100), I(100)}

PivotPoints == {<<I(1), I(2)>>}

\* Image buffers: <<pixels, width, height, is_integer>>.
ImageBuffers ==
    {<<<<I(0), I(1), I(2), I(3), I(4), I(5)>>, 2, 3, TRUE>>,
     <<<<I(-10), I(0), I(10), NaN>>, 2, 2, FALSE>>,
     <<<<I(5), I(5), INFINITY, I(5)>>, 2, 2, FALSE>>}

\* Requested regions <<xmin, xmax, ymin, ymax>> and viewport sizes of
\* setViewBounds / getViewBounds.
Regions ==
    {<<I(0), I(1), I(0), I(1)>>, <<I(1), I(2), Q(1, 2), Q(3, 2)>>,
     <<I(1), I(1), I(0), I(1)>>}
ViewportSizes == {<<I(8), I(6)>>}

----------------------------------------------------------------------------
(* The state machine: the calls a host or the widget's event handling makes *)
(* on one viewer.                                                            *)

has_image == pixels # None

\* ArrayViewerWidget::is_pivot_at_center
is_pivot_at_center ==
    LET center_x == QDiv(QSub(I(width), I(1)), I(2))
        center_y == QDiv(QSub(I(height), I(1)), I(2))
    IN  /\ QLt(QAbs(QSub(transform.pivot_point[1], center_x)), Q(1, 2))
        /\ QLt(QAbs(QSub(transform.pivot_point[2], center_y)), Q(1, 2))

\* The stretch and colormap fields of the widget and its dirty flag, as one
\* record.
Display ==
    [stretch_type |-> stretch_type, linear_cb |-> linear_cb, log_cb |-> log_cb,
     symmetric_cb |-> symmetric_cb, standard_colormap |-> standard_colormap,
     diverging_colormap |-> diverging_colormap, symmetric_mode |-> symmetric_mode,
     colormap_reversed |-> colormap_reversed, texture_dirty |-> texture_dirty]

\* The same fields as ArrayViewerWidget::new() sets them.
NewDisplay ==
    [stretch_type |-> "Linear", linear_cb |-> DefaultContrastBias,
     log_cb |-> DefaultContrastBias, symmetric_cb |-> DefaultContrastBias,
     standard_colormap |-> "Grayscale", diverging_colormap |-> "RdBu",
     symmetric_mode |-> FALSE, colormap_reversed |-> FALSE, texture_dirty |-> FALSE]

\* The textures and the rotation field as ArrayViewerWidget::new() sets them.
UiIsNew ==
    /\ texture = None
    /\ colorbar_texture = None
    /\ rotation_input_text = [fmt |-> "0", v |-> I(0)]
    /\ rotation_input_focused = FALSE

DisplayIsNew ==
    /\ stretch_type = NewDisplay.stretch_type
    /\ linear_cb = NewDisplay.linear_cb
    /\ log_cb = NewDisplay.log_cb
    /\ symmetric_cb = NewDisplay.symmetric_cb
    /\ standard_colormap = NewDisplay.standard_colormap
    /\ diverging_colormap = NewDisplay.diverging_colormap
    /\ symmetric_mode = NewDisplay.symmetric_mode
    /\ colormap_reversed = NewDisplay.colormap_reversed

\* What a call is remembered by: its name, its arguments, the state before.
Call(op, args) ==
    [op |-> op, args |-> args,
     pre |-> [transform |-> transform, width |-> width, height |-> height,
              has_image |-> has_image, display |-> Display,
              value_range |-> <<min_val, max_val>>,
              texts |-> <<rotation_input_text, min_limit_input_text,
                          max_limit_input_text>>]]

Init ==
    /\ transform = NewTransform
    /\ pixels = None
    /\ width = 0
    /\ height = 0
    /\ min_val = I(0)
    /\ max_val = I(1)
    /\ original_min_val = I(0)
    /\ original_max_val = I(1)
    /\ is_integer = FALSE
    /\ min_limit_input_text = [fmt |-> "0", v |-> I(0)]
    /\ max_limit_input_text = [fmt |-> "1", v |-> I(1)]
    /\ texture_dirty = FALSE
    /\ UiIsNew
    /\ DisplayIsNew
    /\ last = [op |-> "new", args |-> <<>>,
               pre |-> [transform |-> NewTransform, width |-> 0, height |-> 0,
                        has_image |-> FALSE, display |-> NewDisplay,
                        value_range |-> <<I(0), I(1)>>,
                        texts |-> <<[fmt |-> "0", v |-> I(0)], [fmt |-> "0", v |-> I(0)],
                                    [fmt |-> "1", v |-> I(1)]>>]]
    /\ steps = 0
    /\ query = <<>>

\* A call that only writes the transform.
TransformCall(op, args, t) ==
    /\ steps < MaxSteps
    /\ transform' = t
    /\ last' = Call(op, args)
    /\ steps' = steps + 1
    /\ UNCHANGED <<imageVars, displayVars, uiVars, query>>

ZoomIn ==
    \E center \in {None}, vp \in Viewports :
        TransformCall("zoom_in", <<center, vp>>,
                      zoom_in(transform, center, RectCenter(vp)))

ZoomOut ==
    \E center \in {None}, vp \in Viewports :
        TransformCall("zoom_out", <<center, vp>>,
                      zoom_out(transform, center, RectCenter(vp)))

ZoomAroundPoint ==
    \E zoom_delta \in ZoomDeltas, screen_pos \in ScreenPositions, vp \in Viewports :
        TransformCall("zoom_around_point", <<zoom_delta, screen_pos, vp>>,
                      zoom_around_point(transform, zoom_delta, screen_pos, RectCenter(vp)))

PanBy ==
    \E delta \in PanDeltas :
        TransformCall("pan_by", <<delta>>, pan_by(transform, delta))

Reset == TransformCall("reset", <<>>, reset(transform))

ResetZoomAndPan ==
    TransformCall("reset_zoom_and_pan", <<>>, reset_zoom_and_pan(transform))

SetRotation ==
    \E degrees \in Angles :
        TransformCall("set_rotation", <<degrees>>, set_rotation(transform, degrees))

RotateBy ==
    \E delta \in AngleDeltas :
        TransformCall("rotate_by", <<delta>>, rotate_by(transform, delta))

SetPivotPoint ==
    \E p \in PivotPoints :
        TransformCall("set_pivot_point", <<p>>, set_pivot_point(transform, p[1], p[2]))

SetShowPivotMarker ==
    \E show_marker \in BOOLEAN :
        TransformCall("set_show_pivot_marker", <<show_marker>>,
                      [transform EXCEPT !.show_pivot_marker = show_marker])

SetZoom ==
    \E level \in ZoomLevels :
        TransformCall("setZoom", <<level>>, set_zoom(transform, level))

SetViewBounds ==
    \E r \in Regions, vs \in ViewportSizes :
        TransformCall("setViewBounds", <<r, vs>>,
                      set_view_bounds(transform, has_image, width, height,
                                      r[1], r[2], r[3], r[4], vs[1], vs[2]))

\* transform.center_on_image_point as show() calls it on Cmd/Ctrl+click, for
\* a pixel p of the loaded image.
CenterOnImagePoint ==
    /\ has_image
    /\ \E x \in {0, width - 1}, y \in {0, height - 1}, vp \in Viewports :
         LET available_size == RectSize(vp)
             base == base_display_size(width, height, available_size[1], available_size[2])
         IN  TransformCall("center_on_image_point", <<<<x, y>>, vp>>,
                 center_on_image_point(transform, <<I(x), I(y)>>,
                                       <<I(width), I(height)>>, available_size,
                                       RectFromCenterSize(RectCenter(vp), base)))

\* ViewerHandle::set_image_data with a buffer of width * height samples,
\* that is ArrayViewerWidget::set_image.
SetImage ==
    /\ steps < MaxSteps
    /\ \E b \in ImageBuffers :
         LET range == ComputeRange(b[1])
         IN  /\ pixels' = Some(b[1])
             /\ width' = b[2]
             /\ height' = b[3]
             /\ min_val' = range[1]
             /\ max_val' = range[2]
             /\ original_min_val' = range[1]
             /\ original_max_val' = range[2]
             /\ min_limit_input_text' =
                    IF b[4] THEN format_integer(range[1]) ELSE format_scientific(range[1])
             /\ max_limit_input_text' =
                    IF b[4] THEN format_integer(range[2]) ELSE format_scientific(range[2])
             /\ texture_dirty' = TRUE
             /\ is_integer' = b[4]
             /\ transform' = SetImageTransform(transform, b[2], b[3], width, height)
             /\ last' = Call("set_image", <<b[2], b[3]>>)
    /\ steps' = steps + 1
    /\ UNCHANGED <<displayVars, uiVars, query>>

Next ==
    \/ ZoomIn
    \/ ZoomOut
    \/ ZoomAroundPoint
    \/ PanBy
    \/ Reset
    \/ ResetZoomAndPan
    \/ SetRotation
    \/ RotateBy
    \/ SetPivotPoint
    \/ SetShowPivotMarker
    \/ SetZoom
    \/ SetViewBounds
    \/ CenterOnImagePoint
    \/ SetImage

Spec == Init /\ [][Next]_vars

----------------------------------------------------------------------------
(* Claims about the state machine. *)

InRangeZoom(z) == QLe(MIN_ZOOM, z) /\ QLe(z, MAX_ZOOM)

\* Image sizes the claims about displayed content are evaluated for.
ImageSizes == {<<2, 3>>, <<3, 2>>, <<100, 100>>}

\* The continuous image coordinate that calculate_image_rect places under
\* screen_pos, for a w x h image fitted to viewport_rect (Y flipped as in
\* screen_to_image).
ImageCoordUnder(t, screen_pos, viewport_rect, w, h) ==
    LET vs == RectSize(viewport_rect)
        r == calculate_image_rect(t, viewport_rect, base_display_size(w, h, vs[1], vs[2]))
    IN  <<QMul(QDiv(QSub(screen_pos[1], r.min[1]), RectWidth(r)), I(w)),
          QMul(QSub(I(1), QDiv(QSub(screen_pos[2], r.min[2]), RectHeight(r))), I(h))>>

WithinOne(a, b) == QLt(QAbs(QSub(a, b)), I(1))

\* C1: zoom_around_point(zoom_delta, screen_pos, centre of the viewport) with
\* zoom_delta # 1 from an in-range zoom keeps the image coordinate under
\* screen_pos the same within one image pixel, clamped or not.
C1_ZoomKeepsPointFixed ==
    (/\ last.op = "zoom_around_point"
     /\ last.args[1] # I(1)
     /\ InRangeZoom(last.pre.transform.zoom))
    => \A s \in ImageSizes :
         LET before == ImageCoordUnder(last.pre.transform, last.args[2], last.args[3],
                                       s[1], s[2])
             after == ImageCoordUnder(transform, last.args[2], last.args[3], s[1], s[2])
         IN  WithinOne(before[1], after[1]) /\ WithinOne(before[2], after[2])

\* C1's case: a zoom about a point off the viewport centre, of a panned
\* view, whose new zoom was clamped to MAX_ZOOM.
C1_Witness ==
    /\ last.op = "zoom_around_point"
    /\ last.args[1] # I(1)
    /\ last.args[2] # RectCenter(last.args[3])
    /\ last.pre.transform.pan_offset # VZero
    /\ transform.zoom = MAX_ZOOM
    /\ QLt(MAX_ZOOM, QMul(last.pre.transform.zoom, last.args[1]))

RequestedAngle ==
    IF last.op = "set_rotation" THEN last.args[1]
    ELSE last.pre.transform.rotation_degrees + last.args[1]

RotationCall == last.op \in {"set_rotation", "rotate_by"}

Congruent360(a, b) == Rem(a - b, 360) = 0

\* C3 as stated: after set_rotation / rotate_by the rotation lies in the
\* half-open interval (-180, 180] and is congruent modulo 360 to the
\* requested angle.
C3_HalfOpenInterval ==
    RotationCall =>
        /\ transform.rotation_degrees > -180
        /\ transform.rotation_degrees <= 180
        /\ Congruent360(transform.rotation_degrees, RequestedAngle)

\* C3 amended: the rotation lies in the closed interval [-180, 180] (a
\* request whose remainder by 360 is -180 is stored as -180) and is congruent
\* modulo 360 to the requested angle.
C3_ClosedInterval ==
    RotationCall =>
        /\ transform.rotation_degrees >= -180
        /\ transform.rotation_degrees <= 180
        /\ Congruent360(transform.rotation_degrees, RequestedAngle)

\* C3's case: a rotate_by that wraps past 180 degrees.
C3_Witness ==
    /\ last.op = "rotate_by"
    /\ last.pre.transform.rotation_degrees + last.args[1] > 180
    /\ transform.rotation_degrees < 0

\* C9: reset() sets zoom = 1, pan_offset = 0 and rotation = 0, so is_default()
\* holds, and keeps pivot_point and show_pivot_marker; reset_zoom_and_pan()
\* sets zoom = 1 and pan_offset = 0 and keeps rotation_degrees, pivot_point
\* and show_pivot_marker.
C9_ResetFrame ==
    /\ last.op = "reset" =>
         /\ transform.zoom = I(1)
         /\ transform.pan_offset = VZero
         /\ transform.rotation_degrees = 0
         /\ is_default(transform)
         /\ transform.pivot_point = last.pre.transform.pivot_point
         /\ transform.show_pivot_marker = last.pre.transform.show_pivot_marker
    /\ last.op = "reset_zoom_and_pan" =>
         /\ transform.zoom = I(1)
         /\ transform.pan_offset = VZero
         /\ transform.rotation_degrees = last.pre.transform.rotation_degrees
         /\ transform.pivot_point = last.pre.transform.pivot_point
         /\ transform.show_pivot_marker = last.pre.transform.show_pivot_marker

\* C9's case: reset_zoom_and_pan of a rotated, zoomed and panned view.
C9_Witness ==
    /\ last.op = "reset_zoom_and_pan"
    /\ last.pre.transform.rotation_degrees # 0
    /\ last.pre.transform.zoom # I(1)
    /\ last.pre.transform.pan_offset # VZero

SetImageCall == last.op = "set_image"

DimensionsChanged ==
    last.args[1] # last.pre.width \/ last.args[2] # last.pre.height

\* C10 as stated: set_image resets pan_offset to zero if and only if the new
\* (width, height) differs from the current one, and in every case leaves
\* zoom, rotation_degrees and pivot_point unchanged.
C10_PivotAlwaysKept ==
    SetImageCall =>
        /\ DimensionsChanged => transform.pan_offset = VZero
        /\ ~DimensionsChanged => transform.pan_offset = last.pre.transform.pan_offset
        /\ transform.zoom = last.pre.transform.zoom
        /\ transform.rotation_degrees = last.pre.transform.rotation_degrees
        /\ transform.pivot_point = last.pre.transform.pivot_point

\* C10 amended: set_image resets pan_offset to zero if and only if the new
\* (width, height) differs from the current one and in every case leaves zoom
\* and rotation_degrees unchanged; pivot_point is unchanged when the
\* dimensions are, and becomes ((width-1)/2, (height-1)/2) when they differ.
C10_PivotKeptForSameDimensions ==
    SetImageCall =>
        /\ DimensionsChanged => transform.pan_offset = VZero
        /\ ~DimensionsChanged => transform.pan_offset = last.pre.transform.pan_offset
        /\ transform.zoom = last.pre.transform.zoom
        /\ transform.rotation_degrees = last.pre.transform.rotation_degrees
        /\ transform.show_pivot_marker = last.pre.transform.show_pivot_marker
        /\ ~DimensionsChanged => transform.pivot_point = last.pre.transform.pivot_point
        /\ DimensionsChanged =>
             transform.pivot_point = <<Q(last.args[1] - 1, 2), Q(last.args[2] - 1, 2)>>

\* C10's case: a buffer of the same dimensions loaded over a panned view.
C10_Witness ==
    /\ SetImageCall
    /\ last.pre.has_image
    /\ ~DimensionsChanged
    /\ last.pre.transform.pan_offset # VZero
    /\ transform.pan_offset # VZero

\* C11: when set_image loads a buffer whose (width, height) differs from the
\* current dimensions, pivot_point becomes the new image centre
\* ((width-1)/2, (height-1)/2), so is_pivot_at_center() holds; when the
\* dimensions are unchanged, a user-set pivot_point is kept.
C11_PivotCentredOnNewDimensions ==
    SetImageCall =>
        /\ DimensionsChanged =>
             /\ transform.pivot_point = <<Q(width - 1, 2), Q(height - 1, 2)>>
             /\ is_pivot_at_center
        /\ ~DimensionsChanged =>
             transform.pivot_point = last.pre.transform.pivot_point

\* C11's case: a buffer of other dimensions replaces a loaded image whose
\* pivot the user had moved.
C11_Witness ==
    /\ SetImageCall
    /\ last.pre.has_image
    /\ DimensionsChanged
    /\ last.pre.transform.pivot_point \in PivotPoints
    /\ transform.pivot_point # last.pre.transform.pivot_point
    /\ is_pivot_at_center

\* The image rect show() draws a width x height image in, in viewport vp.
ShownImageRect(t, vp, w, h) ==
    LET available_size == RectSize(vp)
    IN  calculate_image_rect(t, vp, base_display_size(w, h, available_size[1],
                                                      available_size[2]))

\* C7: after center_on_image_point(p, ...) with rotation 0, screen_to_image of
\* the viewport centre returns p, within one pixel, in both x and y.
C7_CentreShowsPoint ==
    (last.op = "center_on_image_point" /\ transform.rotation_degrees = 0) =>
        LET p == last.args[1]
            vp == last.args[2]
            shown == screen_to_image(RectCenter(vp),
                                     ShownImageRect(transform, vp, width, height),
                                     <<width, height>>)
        IN  /\ shown # None
            /\ Abs(shown[1][1] - p[1]) <= 1
            /\ Abs(shown[1][2] - p[2]) <= 1

\* The zoom setViewBounds needs for a region, before clamping.
RequiredZoom(w, h, r, vs) ==
    LET base == base_display_size(w, h, vs[1], vs[2])
    IN  QMin(QMul(QDiv(I(w), QSub(r[2], r[1])), QDiv(base[1], vs[1])),
             QMul(QDiv(I(h), QSub(r[4], r[3])), QDiv(base[2], vs[2])))

RegionInsideImage(r, w, h) ==
    /\ QLe(I(0), r[1]) /\ QLt(r[1], r[2]) /\ QLe(r[2], I(w))
    /\ QLe(I(0), r[3]) /\ QLt(r[3], r[4]) /\ QLe(r[4], I(h))

\* C8: with an image loaded and rotation 0, after setViewBounds(xmin, xmax,
\* ymin, ymax, W, H) for a region inside the image whose required zoom is
\* within [MIN_ZOOM, MAX_ZOOM], getViewBounds(W, H) returns a range that
\* contains [xmin, xmax] and [ymin, ymax].
C8_ViewBoundsContainRegion ==
    (/\ last.op = "setViewBounds"
     /\ last.pre.has_image
     /\ transform.rotation_degrees = 0
     /\ RegionInsideImage(last.args[1], width, height)
     /\ InRangeZoom(RequiredZoom(width, height, last.args[1], last.args[2])))
    => LET r == last.args[1]
           vs == last.args[2]
           b == get_view_bounds(transform, has_image, width, height, vs[1], vs[2])
       IN  /\ QLe(b[1], r[1]) /\ QLe(r[2], b[2])
           /\ QLe(b[3], r[3]) /\ QLe(r[4], b[4])

----------------------------------------------------------------------------
(* The coordinate conversions on their own: a viewer showing an image of    *)
(* query.size in the rect query.rect, asked about the screen position       *)
(* query.pos.                                                               *)

\* Image rects: whole and fractional edges.
ConvRects ==
    {[min |-> <<I(1), I(2)>>, max |-> <<I(5), I(5)>>],
     [min |-> <<Q(1, 2), I(1)>>, max |-> <<Q(11, 2), Q(9, 2)>>],
     [min |-> <<I(2), I(0)>>, max |-> <<I(3), I(6)>>]}

ConvSizes == {<<1, 1>>, <<2, 3>>, <<7, 5>>}

ConvRotations == {0, 90, -45}

ConvPositions == {<<I(x), I(y)>> : x \in 0..MaxCoord, y \in 0..MaxCoord}

InitConv ==
    /\ transform \in {[NewTransform EXCEPT !.rotation_degrees = r] : r \in ConvRotations}
    /\ pixels = None
    /\ width = 0
    /\ height = 0
    /\ min_val = I(0)
    /\ max_val = I(1)
    /\ original_min_val = I(0)
    /\ original_max_val = I(1)
    /\ is_integer = FALSE
    /\ min_limit_input_text = [fmt |-> "0", v |-> I(0)]
    /\ max_limit_input_text = [fmt |-> "1", v |-> I(1)]
    /\ texture_dirty = FALSE
    /\ UiIsNew
    /\ DisplayIsNew
    /\ last = [op |-> "new", args |-> <<>>,
               pre |-> [transform |-> NewTransform, width |-> 0, height |-> 0,
                        has_image |-> FALSE, display |-> NewDisplay,
                        value_range |-> <<I(0), I(1)>>,
                        texts |-> <<[fmt |-> "0", v |-> I(0)], [fmt |-> "0", v |-> I(0)],
                                    [fmt |-> "1", v |-> I(1)]>>]]
    /\ steps = 0
    /\ query \in {[op |-> "input", rect |-> r, size |-> s, pos |-> p,
                   pixel |-> None, result |-> None] :
                  r \in ConvRects, s \in ConvSizes, p \in ConvPositions}

\* screen_to_image(query.pos, ...)
ScreenToImage ==
    /\ query.op = "input"
    /\ query' = [query EXCEPT
                   !.op = "screen_to_image",
                   !.result = screen_to_image(query.pos, query.rect, query.size)]
    /\ UNCHANGED <<transform, imageVars, displayVars, uiVars, last, steps>>

\* screen_to_image(image_to_screen(pixel, ...), ...) for a pixel of the image.
ImageToScreenToImage ==
    /\ query.op = "input"
    /\ \E x \in 0..(query.size[1] - 1), y \in 0..(query.size[2] - 1) :
         query' = [query EXCEPT
                     !.op = "image_to_screen",
                     !.pixel = Some(<<x, y>>),
                     !.pos = image_to_screen(<<x, y>>, query.rect, query.size),
                     !.result = screen_to_image(
                                    image_to_screen(<<x, y>>, query.rect, query.size),
                                    query.rect, query.size)]
    /\ UNCHANGED <<transform, imageVars, displayVars, uiVars, last, steps>>

\* Cmd/Ctrl+Shift+click at query.pos in show(): the pivot is set to the
\* pixel under the click, if there is one.
SetPivotByClick ==
    /\ query.op = "input"
    /\ LET clicked == screen_to_image_for_pivot(transform, query.pos, query.rect,
                                                query.size)
       IN  /\ transform' =
                 IF clicked # None
                 THEN [set_pivot_point(transform, I(clicked[1][1]), I(clicked[1][2]))
                          EXCEPT !.show_pivot_marker = TRUE]
                 ELSE transform
           /\ query' = [query EXCEPT !.op = "pivot_click", !.result = clicked]
    /\ UNCHANGED <<imageVars, displayVars, uiVars, last, steps>>

NextConv ==
    \/ ScreenToImage
    \/ ImageToScreenToImage
    \/ SetPivotByClick

SpecConv == InitConv /\ [][NextConv]_vars

----------------------------------------------------------------------------
(* Claims about the conversions. *)

OutsideRect(p, r) ==
    \/ QLt(p[1], r.min[1]) \/ QLt(r.max[1], p[1])
    \/ QLt(p[2], r.min[2]) \/ QLt(r.max[2], p[2])

\* C4: screen_to_image returns None exactly when screen_pos is outside
\* image_rect; for a position inside, edges included, it returns Some((x, y))
\* with x < width and y < height, the top edge mapping to row height-1, the
\* bottom edge to row 0, the left edge to column 0 and the right edge to
\* column width-1.
C4_ScreenToImageTotalInside ==
    query.op = "screen_to_image" =>
        LET p == query.pos
            r == query.rect
            res == query.result
        IN  /\ (res = None) <=> OutsideRect(p, r)
            /\ res # None =>
                 /\ res[1][1] >= 0 /\ res[1][1] < query.size[1]
                 /\ res[1][2] >= 0 /\ res[1][2] < query.size[2]
                 /\ p[2] = r.min[2] => res[1][2] = query.size[2] - 1
                 /\ p[2] = r.max[2] => res[1][2] = 0
                 /\ p[1] = r.min[1] => res[1][1] = 0
                 /\ p[1] = r.max[1] => res[1][1] = query.size[1] - 1

\* C4's case: the bottom right corner of the rect of an image more than one
\* pixel wide and high.
C4_Witness ==
    /\ query.op = "screen_to_image"
    /\ query.pos = query.rect.max
    /\ query.size[1] > 1 /\ query.size[2] > 1
    /\ query.result = Some(<<query.size[1] - 1, 0>>)

\* C5: for every pixel (x, y) of the image,
\* screen_to_image(image_to_screen((x, y))) = Some((x, y)).
C5_PixelRoundTrip ==
    query.op = "image_to_screen" => query.result = query.pixel

\* C5's case: a pixel off the image's horizontal and vertical midlines.
C5_Witness ==
    /\ query.op = "image_to_screen"
    /\ query.pixel # None
    /\ query.pixel[1][1] # query.size[1] - 1 - query.pixel[1][1]
    /\ query.pixel[1][2] # query.size[2] - 1 - query.pixel[1][2]
    /\ query.result = query.pixel

----------------------------------------------------------------------------
(* clamp_pan_offset on its own: a view of a query.size image in the         *)
(* viewport query.rect, at any zoom and pan.                                *)

ClampZooms == {MIN_ZOOM, Q(1, 2), I(1), Q(5, 4), I(2), I(5)}

ClampPans == {<<I(x), I(y)>> : x \in {-100, -3, 0, 3, 100}, y \in {-100, -2, 0, 40}}

InitClamp ==
    /\ transform \in {[NewTransform EXCEPT !.zoom = z, !.pan_offset = p] :
                      z \in ClampZooms, p \in ClampPans}
    /\ pixels = None
    /\ width = 0
    /\ height = 0
    /\ min_val = I(0)
    /\ max_val = I(1)
    /\ original_min_val = I(0)
    /\ original_max_val = I(1)
    /\ is_integer = FALSE
    /\ min_limit_input_text = [fmt |-> "0", v |-> I(0)]
    /\ max_limit_input_text = [fmt |-> "1", v |-> I(1)]
    /\ texture_dirty = FALSE
    /\ UiIsNew
    /\ DisplayIsNew
    /\ last = [op |-> "new", args |-> <<>>,
               pre |-> [transform |-> NewTransform, width |-> 0, height |-> 0,
                        has_image |-> FALSE, display |-> NewDisplay,
                        value_range |-> <<I(0), I(1)>>,
                        texts |-> <<[fmt |-> "0", v |-> I(0)], [fmt |-> "0", v |-> I(0)],
                                    [fmt |-> "1", v |-> I(1)]>>]]
    /\ steps = 0
    /\ query \in {[op |-> "input", rect |-> r, size |-> s, calls |-> 0, before |-> None] :
                  r \in Viewports, s \in ImageSizes}

\* The zoomed image size show() computes: base_display_size * zoom.
ZoomedImageSize(t, viewport_rect, size) ==
    LET vs == RectSize(viewport_rect)
    IN  VScale(base_display_size(size[1], size[2], vs[1], vs[2]), t.zoom)

\* transform.clamp_pan_offset(viewport_size, zoomed_image_size), a first and
\* a second time.
ClampPanOffset ==
    /\ query.calls < 2
    /\ transform' = clamp_pan_offset(transform, RectSize(query.rect),
                                     ZoomedImageSize(transform, query.rect, query.size))
    /\ query' = [query EXCEPT !.op = "clamp_pan_offset",
                              !.calls = query.calls + 1,
                              !.before = Some(transform.pan_offset)]
    /\ UNCHANGED <<imageVars, displayVars, uiVars, last, steps>>

NextClamp == ClampPanOffset

SpecClamp == InitClamp /\ [][NextClamp]_vars

\* The length of the overlap of [a_min, a_max] and [b_min, b_max]; negative
\* when they are apart.
Overlap(a_min, a_max, b_min, b_max) == QSub(QMin(a_max, b_max), QMax(a_min, b_min))

\* C12: after clamp_pan_offset(viewport_size, zoomed_image_size) with
\* zoomed_image_size = base_display_size * zoom, for any prior pan_offset, the
\* rect of calculate_image_rect overlaps the viewport by at least 10% of the
\* zoomed image size on each axis, and a second call changes nothing.
C12_ClampKeepsImageVisible ==
    query.op = "clamp_pan_offset" =>
        LET vp == query.rect
            zoomed == ZoomedImageSize(transform, vp, query.size)
            r == ShownImageRect(transform, vp, query.size[1], query.size[2])
        IN  /\ QLe(QMul(Q(1, 10), zoomed[1]),
                   Overlap(r.min[1], r.max[1], vp.min[1], vp.max[1]))
            /\ QLe(QMul(Q(1, 10), zoomed[2]),
                   Overlap(r.min[2], r.max[2], vp.min[2], vp.max[2]))
            /\ query.calls = 2 => query.before = Some(transform.pan_offset)

----------------------------------------------------------------------------
(* The display state machine: the calls that load an image and that change  *)
(* stretch, contrast/bias and colormap, on one viewer.                      *)

Contrasts == {I(-1), I(5), I(20)}
Biases == {I(-1), Q(1, 4), I(2)}

\* Right-button drag deltas <<dx, dy>>.
Drags == {<<I(4), I(3)>>, <<I(-16), I(-12)>>}

StretchTypes == {"Linear", "Log"}
Colormaps == {"Grayscale", "Inferno", "Magma", "RdBu", "RdYlBu"}

\* A call that only writes the display fields and the dirty flag.
DisplayCall(op, args, d) ==
    /\ steps < MaxSteps
    /\ stretch_type' = d.stretch_type
    /\ linear_cb' = d.linear_cb
    /\ log_cb' = d.log_cb
    /\ symmetric_cb' = d.symmetric_cb
    /\ standard_colormap' = d.standard_colormap
    /\ diverging_colormap' = d.diverging_colormap
    /\ symmetric_mode' = d.symmetric_mode
    /\ colormap_reversed' = d.colormap_reversed
    /\ texture_dirty' = d.texture_dirty
    /\ last' = Call(op, args)
    /\ steps' = steps + 1
    /\ UNCHANGED <<transform, bufferVars, uiVars, query>>

SetContrast ==
    \E contrast \in Contrasts :
        DisplayCall("set_contrast", <<contrast>>, set_contrast(Display, contrast))

SetBias ==
    \E bias \in Biases : DisplayCall("set_bias", <<bias>>, set_bias(Display, bias))

AdjustContrastBias ==
    \E drag \in Drags, available_size \in ViewportSizes :
        DisplayCall("adjust_contrast_bias", <<drag, available_size>>,
                    adjust_contrast_bias(Display, drag[1], drag[2], available_size))

ResetCurrentStretch ==
    DisplayCall("reset_current_stretch", <<>>, reset_current_stretch(Display))

ResetAllStretch == DisplayCall("reset_all_stretch", <<>>, reset_all_stretch(Display))

SetStretchType ==
    \E type \in StretchTypes :
        DisplayCall("set_stretch_type", <<type>>, set_stretch_type(Display, type))

ToggleStretchType ==
    DisplayCall("toggle_stretch_type", <<>>, toggle_stretch_type(Display))

SetSymmetric ==
    \E enabled \in BOOLEAN :
        DisplayCall("set_symmetric", <<enabled>>, set_symmetric(Display, enabled))

ToggleSymmetric == DisplayCall("toggle_symmetric", <<>>, toggle_symmetric(Display))

SetColormap ==
    \E cm \in Colormaps : DisplayCall("set_colormap", <<cm>>, set_colormap(Display, cm))

ToggleReverse == DisplayCall("toggle_reverse", <<>>, toggle_reverse(Display))

\* The StretchAction arms of show().
StretchSetLinear ==
    DisplayCall("SetLinear", <<>>,
                set_stretch_type(set_symmetric(Display, FALSE), "Linear"))

StretchSetLog ==
    DisplayCall("SetLog", <<>>, set_stretch_type(set_symmetric(Display, FALSE), "Log"))

StretchSetDiverging ==
    DisplayCall("SetDiverging", <<>>,
                set_symmetric(set_stretch_type(Display, "Linear"), TRUE))

NextDisplay ==
    \/ SetImage
    \/ SetContrast
    \/ SetBias
    \/ AdjustContrastBias
    \/ ResetCurrentStretch
    \/ ResetAllStretch
    \/ SetStretchType
    \/ ToggleStretchType
    \/ SetSymmetric
    \/ ToggleSymmetric
    \/ SetColormap
    \/ ToggleReverse
    \/ StretchSetLinear
    \/ StretchSetLog
    \/ StretchSetDiverging

SpecDisplay == Init /\ [][NextDisplay]_vars

----------------------------------------------------------------------------
(* Claims about rendering. *)

\* The bitmap of the current state.
Bitmap == build_color_image(pixels, min_val, max_val, Display)[1]

\* C13: a non-finite sample (NaN, +Infinity, -Infinity) is rendered as index 0
\* of the active palette in the bitmap built by build_color_image, for every
\* scale range and in every reachable display state (every stretch type,
\* contrast/bias setting and reversal flag).
C13_NonFiniteRendersLowest ==
    has_image =>
        \A i \in 1..Len(pixels[1]) :
            ~is_finite(pixels[1][i]) => Bitmap[i].index = 0

\* round(x) for x >= 0
QRound(x) == QFloor(QAdd(x, Q(1, 2)))

\* C14: Colormap::Grayscale maps every t in [0,1] to the gray level
\* round(t*255) on all three channels; in particular samples {-10, 0, 10}
\* with range (-10, 10), Linear stretch, default contrast/bias (1.0, 0.5), not
\* reversed, render as (0,0,0), (128,128,128), (255,255,255).
C14_GrayscaleRounds ==
    (has_image /\ colormap(Display) = "Grayscale") =>
        /\ \A i \in 1..Len(pixels[1]) :
             LET r == QRound(QMul(AdjustedValue(pixels[1][i], min_val, max_val, Display),
                                  I(255)))
             IN  Bitmap[i].rgb = <<r, r, r>>
        /\ (/\ SubSeq(pixels[1], 1, 3) = <<I(-10), I(0), I(10)>>
            /\ min_val = I(-10) /\ max_val = I(10)
            /\ stretch_type = "Linear" /\ ~symmetric_mode /\ ~colormap_reversed
            /\ linear_cb = [contrast |-> I(1), bias |-> Q(1, 2)])
           => /\ Bitmap[1].rgb = <<0, 0, 0>>
              /\ Bitmap[2].rgb = <<128, 128, 128>>
              /\ Bitmap[3].rgb = <<255, 255, 255>>

----------------------------------------------------------------------------
(* Claims about contrast/bias and display modes. *)

\* The three stored ContrastBias slots of a display state.
Slots == {"linear_cb", "log_cb", "symmetric_cb"}

\* The display state before the last call.
PreDisplay == last.pre.display

InDomain(cb) ==
    /\ QLe(I(0), cb.contrast) /\ QLe(cb.contrast, I(10))
    /\ QLe(I(0), cb.bias) /\ QLe(cb.bias, I(1))

\* C15: after any sequence of set_contrast, set_bias, adjust_contrast_bias,
\* reset_current_stretch, reset_all_stretch and mode switches with finite
\* arguments, each of the three stored slots (linear, log, symmetric) has
\* contrast in [0, 10] and bias in [0, 1].
C15_SlotsInDomain == \A slot \in Slots : InDomain(Display[slot])

\* A drag in symmetric mode that was clamped at the upper contrast bound, on a
\* viewer whose linear slot was earlier clamped at the lower bias bound.
C15_Witness ==
    /\ last.op = "adjust_contrast_bias"
    /\ PreDisplay.symmetric_mode
    /\ symmetric_cb.contrast = I(10)
    /\ PreDisplay.symmetric_cb.contrast # I(10)
    /\ linear_cb.bias = I(0)

\* The slot selected by the active mode of display state d.
ActiveSlot(d) ==
    CASE d.symmetric_mode -> "symmetric_cb"
      [] ~d.symmetric_mode /\ d.stretch_type = "Linear" -> "linear_cb"
      [] ~d.symmetric_mode /\ d.stretch_type = "Log" -> "log_cb"

SlotWriters == {"set_contrast", "set_bias", "adjust_contrast_bias", "reset_current_stretch"}

ModeSwitches == {"set_stretch_type", "toggle_stretch_type", "set_symmetric", "toggle_symmetric", "SetLinear", "SetLog", "SetDiverging"}

\* C16: set_contrast, set_bias, adjust_contrast_bias and reset_current_stretch
\* modify only the slot selected by the mode that was active at the call
\* (symmetric slot if symmetric mode is on, else the slot of the current
\* stretch type) and leave the other two slots unchanged; a mode switch
\* (set_stretch_type, set_symmetric, toggle_*, and the buttons built from
\* them) changes no slot.
C16_SlotsIndependent ==
    /\ last.op \in SlotWriters =>
           \A slot \in Slots \ {ActiveSlot(PreDisplay)} :
               Display[slot] = PreDisplay[slot]
    /\ last.op \in ModeSwitches =>
           \A slot \in Slots : Display[slot] = PreDisplay[slot]

\* set_contrast in Log mode on a viewer whose linear slot had been changed
\* before the switch to Log.
C16_Witness ==
    /\ last.op = "set_contrast"
    /\ ActiveSlot(PreDisplay) = "log_cb"
    /\ log_cb # PreDisplay.log_cb
    /\ linear_cb # DefaultContrastBias

\* C17: whenever symmetric mode is active, current_contrast_bias().bias is
\* exactly 0.5 whatever bias is stored, and set_bias and adjust_contrast_bias
\* called while symmetric mode is active change no stored bias in any of the
\* three slots (adjust_contrast_bias changes only the symmetric slot's
\* contrast).
C17_SymmetricBiasPinned ==
    /\ symmetric_mode => current_contrast_bias(Display).bias = Q(1, 2)
    /\ (last.op \in {"set_bias", "adjust_contrast_bias"} /\ PreDisplay.symmetric_mode) =>
           /\ \A slot \in Slots : Display[slot].bias = PreDisplay[slot].bias
           /\ linear_cb = PreDisplay.linear_cb
           /\ log_cb = PreDisplay.log_cb

\* A drag with a horizontal component in symmetric mode, on a viewer with a
\* stored linear bias other than 0.5: only the symmetric contrast moved.
C17_Witness ==
    /\ last.op = "adjust_contrast_bias"
    /\ PreDisplay.symmetric_mode
    /\ last.args[1][1] # I(0)
    /\ symmetric_cb.contrast # PreDisplay.symmetric_cb.contrast
    /\ linear_cb.bias # Q(1, 2)

\* C18: after reset_all_stretch, from any reachable display state (symmetric
\* mode enabled included), all three slots equal the default (1.0, 0.5) and
\* the active display mode is Linear: stretch_type is Linear and symmetric
\* mode is off, so getStretchMode reports "linear".
C18_ResetAllRestoresLinear ==
    last.op = "reset_all_stretch" =>
        /\ \A slot \in Slots : Display[slot] = [contrast |-> I(1), bias |-> Q(1, 2)]
        /\ stretch_type = "Linear"
        /\ ~symmetric_mode
        /\ get_stretch_mode(Display) = "linear"

\* C19: in every reachable state (any sequence of set_colormap,
\* set_symmetric, toggle_symmetric, set_stretch_type, toggle_stretch_type) the
\* active colormap returned by colormap() is a diverging palette if and only
\* if symmetric mode is enabled.
C19_DivergingIffSymmetric ==
    (colormap(Display) \in {"RdBu", "RdYlBu"}) <=> symmetric_mode

\* Symmetric mode with the second diverging palette active, right after a
\* standard palette was selected in symmetric mode.
C19_Witness ==
    /\ symmetric_mode
    /\ last.op = "set_colormap"
    /\ last.args[1] = "Inferno"
    /\ colormap(Display) = "RdYlBu"

\* Symmetric mode went from enabled to disabled in the last call, with a
\* diverging palette active before it.
SymmetricTurnedOff ==
    /\ last.op \in {"set_symmetric", "toggle_symmetric", "SetLinear", "SetLog", "set_stretch_type", "toggle_stretch_type"}
    /\ PreDisplay.symmetric_mode
    /\ ~symmetric_mode
    /\ colormap(PreDisplay) \in {"RdBu", "RdYlBu"}

C21_LogDisablesSymmetric ==
    (/\ last.op \in {"set_stretch_type", "toggle_stretch_type"}
     /\ PreDisplay.symmetric_mode
     /\ PreDisplay.stretch_type = "Linear"
     /\ stretch_type = "Log")
        => ~symmetric_mode

----------------------------------------------------------------------------
(* The rendering state machine: the calls that change what is drawn, and    *)
(* the frames that draw it.                                                 *)

\* All the fields of the widget, as one record.
Widget ==
    [transform |-> transform, pixels |-> pixels, width |-> width, height |-> height,
     min_val |-> min_val, max_val |-> max_val,
     original_min_val |-> original_min_val, original_max_val |-> original_max_val,
     is_integer |-> is_integer,
     min_limit_input_text |-> min_limit_input_text,
     max_limit_input_text |-> max_limit_input_text,
     texture_dirty |-> texture_dirty, texture |-> texture,
     colorbar_texture |-> colorbar_texture,
     rotation_input_text |-> rotation_input_text,
     rotation_input_focused |-> rotation_input_focused,
     stretch_type |-> stretch_type, linear_cb |-> linear_cb, log_cb |-> log_cb,
     symmetric_cb |-> symmetric_cb, standard_colormap |-> standard_colormap,
     diverging_colormap |-> diverging_colormap, symmetric_mode |-> symmetric_mode,
     colormap_reversed |-> colormap_reversed]

\* A call that leaves the widget as the record w.
WidgetCall(op, args, w) ==
    /\ steps < MaxSteps
    /\ transform' = w.transform
    /\ pixels' = w.pixels
    /\ width' = w.width
    /\ height' = w.height
    /\ min_val' = w.min_val
    /\ max_val' = w.max_val
    /\ original_min_val' = w.original_min_val
    /\ original_max_val' = w.original_max_val
    /\ is_integer' = w.is_integer
    /\ min_limit_input_text' = w.min_limit_input_text
    /\ max_limit_input_text' = w.max_limit_input_text
    /\ texture_dirty' = w.texture_dirty
    /\ texture' = w.texture
    /\ colorbar_texture' = w.colorbar_texture
    /\ rotation_input_text' = w.rotation_input_text
    /\ rotation_input_focused' = w.rotation_input_focused
    /\ stretch_type' = w.stretch_type
    /\ linear_cb' = w.linear_cb
    /\ log_cb' = w.log_cb
    /\ symmetric_cb' = w.symmetric_cb
    /\ standard_colormap' = w.standard_colormap
    /\ diverging_colormap' = w.diverging_colormap
    /\ symmetric_mode' = w.symmetric_mode
    /\ colormap_reversed' = w.colormap_reversed
    /\ last' = Call(op, args)
    /\ steps' = steps + 1
    /\ UNCHANGED query

\* Display limits handed to set_min_val, set_max_val and set_value_range.
LimitValues == {I(-5), Q(15, 2)}
LimitRanges == {<<I(-5), I(20)>>}

SetMinVal == \E v \in LimitValues : WidgetCall("set_min_val", <<v>>, set_min_val(Widget, v))

SetMaxVal == \E v \in LimitValues : WidgetCall("set_max_val", <<v>>, set_max_val(Widget, v))

SetValueRange ==
    \E r \in LimitRanges :
        WidgetCall("set_value_range", r, set_value_range(Widget, r[1], r[2]))

ResetLimits == WidgetCall("reset_limits", <<>>, reset_limits(Widget))

ResetDisplay == WidgetCall("reset_display", <<>>, reset_display(Widget))

\* A frame in which no control is used.
NoInput ==
    [clicks |-> {}, drag |-> None, available_size |-> <<I(8), I(6)>>,
     viewport |-> RectFromMinSize(<<I(2), I(1)>>, <<I(8), I(6)>>),
     stretch_action |-> NoAction,
     max_edit |-> None, max_commit |-> FALSE,
     min_edit |-> None, min_commit |-> FALSE,
     rotation_edit |-> None, rotation_gained_focus |-> FALSE,
     rotation_lost_focus |-> FALSE, enter |-> FALSE,
     keys |-> {}, text_focused |-> FALSE]

\* The frames of the rendering state machine: the stretch controls, the
\* right-button drag, the colorbar's fields and its reset button.
RenderFrames ==
    {NoInput,
     [NoInput EXCEPT !.drag = Some(<<I(4), I(3)>>)],
     [NoInput EXCEPT !.stretch_action = <<"SetLinear">>],
     [NoInput EXCEPT !.stretch_action = <<"SetLog">>],
     [NoInput EXCEPT !.stretch_action = <<"SetDiverging">>],
     [NoInput EXCEPT !.stretch_action = <<"SetColormap", "Magma">>],
     [NoInput EXCEPT !.stretch_action = <<"ToggleReverse">>],
     [NoInput EXCEPT !.stretch_action = <<"ResetStretch">>],
     [NoInput EXCEPT !.max_edit = Some("abc"), !.max_commit = TRUE],
     [NoInput EXCEPT !.max_edit = Some(" 20 "), !.max_commit = TRUE],
     [NoInput EXCEPT !.max_commit = TRUE],
     [NoInput EXCEPT !.min_edit = Some("abc"), !.min_commit = TRUE],
     [NoInput EXCEPT !.min_edit = Some("-5"), !.min_commit = TRUE],
     [NoInput EXCEPT !.clicks = {"reset_display"}]}

ShowRender == \E e \in RenderFrames : WidgetCall("show", <<e>>, show(Widget, e))

NextRender ==
    \/ SetImage
    \/ SetContrast
    \/ SetBias
    \/ AdjustContrastBias
    \/ ResetCurrentStretch
    \/ ResetAllStretch
    \/ SetStretchType
    \/ ToggleStretchType
    \/ SetSymmetric
    \/ ToggleSymmetric
    \/ SetColormap
    \/ ToggleReverse
    \/ SetMinVal
    \/ SetMaxVal
    \/ SetValueRange
    \/ ResetLimits
    \/ ResetDisplay
    \/ ShowRender

SpecRender == Init /\ [][NextRender]_vars

----------------------------------------------------------------------------
(* Claims about the cached textures and the display limits. *)

\* What the image texture and the colorbar are computed from.
RenderParameters ==
    <<pixels, width, height, min_val, max_val, stretch_type, symmetric_mode,
      current_contrast_bias(Display), colormap(Display), colormap_reversed>>

\* The cached textures are the ones the current parameters give.
TexturesCurrent ==
    /\ texture = ColorImage(Widget)
    /\ colorbar_texture = Some(ColorbarImage(Widget))

\* C22: show() rebuilds the image texture and the colorbar only when
\* texture_dirty is set, and clears the flag; every operation that changes
\* the pixels, the value range, the stretch type, symmetric mode, the active
\* contrast/bias, the colormap or the reversal flag sets texture_dirty.  Hence
\* whenever texture_dirty is false and an image is loaded the cached textures
\* were built from the current parameters, and a frame without input leaves
\* the flag cleared and the textures current.
C22_DirtyFlagCaching ==
    /\ []((~texture_dirty /\ has_image) => TexturesCurrent)
    /\ [][RenderParameters' # RenderParameters => texture_dirty']_vars
    /\ [][last'.op = "show" =>
            /\ ~texture_dirty => (texture' = texture /\ colorbar_texture' = colorbar_texture)
            /\ (texture_dirty /\ has_image) => texture' = ColorImage(Widget)
            /\ last'.args[1] = NoInput => ~texture_dirty']_vars

\* A frame that rebuilt the texture of a loaded image after its contrast was
\* changed.
C22_Witness ==
    /\ last.op = "show"
    /\ PreDisplay.texture_dirty
    /\ ~texture_dirty
    /\ has_image
    /\ linear_cb.contrast # I(1)
    /\ TexturesCurrent

\* The range set_image computed from the samples now loaded; (0, 1) before
\* the first set_image.
AutoRange == IF has_image THEN ComputeRange(pixels[1]) ELSE <<I(0), I(1)>>

\* C23: the auto-computed range (original_min_val, original_max_val) changes
\* only in set_image; after any sequence of set_min_val, set_max_val,
\* set_value_range and colorbar limit edits followed by reset_limits (or
\* reset_display), value_range() equals the range auto-computed by the most
\* recent set_image and is_limits_modified() is false.
C23_ResetRestoresAutoRange ==
    /\ [][<<original_min_val, original_max_val>>' # <<original_min_val, original_max_val>>
            => last'.op = "set_image"]_vars
    /\ [](last.op \in {"reset_limits", "reset_display"} =>
            /\ value_range(Widget) = AutoRange
            /\ <<original_min_val, original_max_val>> = AutoRange
            /\ ~is_limits_modified(Widget))

\* reset_limits on a loaded image whose limits had both been overridden.
C23_Witness ==
    /\ last.op = "reset_limits"
    /\ has_image
    /\ last.pre.value_range[1] # min_val
    /\ last.pre.value_range[2] # max_val
    /\ value_range(Widget) = AutoRange

----------------------------------------------------------------------------
(* The overlay state machine: frames in which the buttons and the text      *)
(* fields of the overlays are used.                                         *)

\* Texts typed into the rotation field and into the limit fields.
RotationTexts == {"abc", " 90", "90", "-540"}
LimitTexts == {"abc", " 20 ", "7.5"}

\* Buttons that can be clicked in the frame that commits the rotation field.
CommitClicks == {{}, {"zoom_in"}, {"zoom_out"}, {"reset_zoom"}, {"cw"}}

\* Frames of the rotation field: focus gained and a text typed, with or
\* without a click on the rotate button before the field; the field
\* committed by losing the focus or by Enter.
RotationFieldFrames ==
    {[NoInput EXCEPT !.rotation_gained_focus = TRUE, !.rotation_edit = Some(t),
                     !.text_focused = TRUE, !.clicks = c] :
        t \in RotationTexts, c \in {{}, {"ccw"}}}
    \cup {[NoInput EXCEPT !.rotation_lost_focus = TRUE, !.clicks = c] : c \in CommitClicks}
    \cup {[NoInput EXCEPT !.enter = TRUE, !.text_focused = TRUE]}

\* Frames of the limit fields: a text typed and committed.
LimitFieldFrames ==
    {[NoInput EXCEPT !.max_edit = Some(t), !.max_commit = TRUE] : t \in LimitTexts}
    \cup {[NoInput EXCEPT !.min_edit = Some(t), !.min_commit = TRUE] : t \in LimitTexts}

\* Frames with one button clicked or one shortcut key pressed.
ButtonFrames ==
    {[NoInput EXCEPT !.clicks = {b}] :
        b \in {"zoom_in", "zoom_out", "reset_zoom", "toggle_pivot", "reset_pivot",
               "reset_rotation", "ccw", "cw"}}
    \cup {[NoInput EXCEPT !.keys = {k}] : k \in {"=", "-", "0"}}

\* egui reports a lost focus or a pressed Enter to the field only if the field
\* had the focus, and leaves the shortcuts to the focused field.
FrameCanHappen(e) ==
    /\ (e.rotation_lost_focus \/ e.enter) => rotation_input_focused
    /\ e.rotation_gained_focus => ~rotation_input_focused
    /\ e.keys # {} => ~rotation_input_focused

ShowOverlay ==
    \E e \in RotationFieldFrames \cup LimitFieldFrames \cup ButtonFrames :
        /\ FrameCanHappen(e)
        /\ WidgetCall("show", <<e>>, show(Widget, e))

\* ViewerHandle::set_rotation
SetRotationText ==
    \E degrees \in {90, 270} :
        WidgetCall("set_rotation", <<degrees>>, widget_set_rotation(Widget, degrees))

NextFrame ==
    \/ SetImage
    \/ SetRotationText
    \/ ShowOverlay

SpecFrame == Init /\ [][NextFrame]_vars

----------------------------------------------------------------------------
(* Claims about the text fields of the overlays.                            *)

\* The input of the frame that show() handled last.
Frame == last.args[1]

\* The text the rotation field held when the frame committed it.
CommittedRotationText ==
    IF Frame.rotation_edit # None THEN Typed(Frame.rotation_edit[1]) ELSE last.pre.texts[1]

\* The frame committed the rotation field: the field had or gained the focus,
\* and lost it or saw Enter.
RotationCommitted ==
    /\ last.op = "show" /\ last.pre.has_image
    /\ Frame.rotation_lost_focus \/ Frame.enter

\* The frame committed the maximum (the minimum) field of the colorbar.
MaxCommitted == last.op = "show" /\ last.pre.has_image /\ Frame.max_commit
MinCommitted == last.op = "show" /\ last.pre.has_image /\ Frame.min_commit

\* The text the maximum (the minimum) field held when the frame committed it.
CommittedMaxText ==
    IF Frame.max_edit # None THEN Typed(Frame.max_edit[1]) ELSE last.pre.texts[3]
CommittedMinText ==
    IF Frame.min_edit # None THEN Typed(Frame.min_edit[1]) ELSE last.pre.texts[2]

\* A rotation button or a shortcut acted in the frame beside the text field.
OtherControlUsed == Frame.clicks # {} \/ Frame.keys # {}

\* Two texts are the same text: written the same way from the same value.
SameText(a, b) == a.fmt = b.fmt /\ a.v = b.v

\* C24: a committed text that does not parse changes nothing and is replaced
\* by the formatting of the current value. For the rotation field: the
\* rotation, the limits and the dirty flag are as before the commit, and the
\* text is the one-decimal formatting of the rotation. For the limit fields:
\* the limits and the rotation are as before, the dirty flag is clear, and
\* the text is the integer or scientific formatting of the limit.
C24_ParseFailureReverts ==
    /\ (RotationCommitted /\ parse(CommittedRotationText) = None /\ ~OtherControlUsed)
         => /\ transform = last.pre.transform
            /\ <<min_val, max_val>> = last.pre.value_range
            /\ ~texture_dirty
            /\ SameText(rotation_input_text, format_rotation(Widget))
    /\ (MaxCommitted /\ trim_parse(CommittedMaxText) = None)
         => /\ transform = last.pre.transform
            /\ <<min_val, max_val>> = last.pre.value_range
            /\ ~texture_dirty
            /\ SameText(max_limit_input_text, format_limit(max_val, is_integer))
    /\ (MinCommitted /\ trim_parse(CommittedMinText) = None)
         => /\ transform = last.pre.transform
            /\ <<min_val, max_val>> = last.pre.value_range
            /\ ~texture_dirty
            /\ SameText(min_limit_input_text, format_limit(min_val, is_integer))

\* A text that is no number was committed in the rotation field while the
\* view was rotated, and the field shows the rotation again.
C24_Witness ==
    /\ RotationCommitted /\ parse(CommittedRotationText) = None /\ ~OtherControlUsed
    /\ transform.rotation_degrees # 0
    /\ SameText(rotation_input_text, format_rotation(Widget))

\* A text that is no number was committed in the maximum field.
C24_WitnessLimit ==
    /\ MaxCommitted /\ trim_parse(CommittedMaxText) = None
    /\ SameText(max_limit_input_text, format_limit(max_val, is_integer))

\* The angle entered in the rotation field the frame committed.
EnteredAngle == parse(CommittedRotationText)[1][1]

\* The frame committed an angle differing from the rotation, and no control
\* other than the zoom buttons of the overlay was used in the frame.
RotationEntered ==
    /\ RotationCommitted
    /\ parse(CommittedRotationText) # None
    /\ EnteredAngle # last.pre.transform.rotation_degrees
    /\ Frame.clicks \subseteq {"zoom_in", "zoom_out", "reset_zoom"}
    /\ Frame.keys = {}

\* The text of the rotation field denotes the rotation.
TextDenotesRotation ==
    /\ parse(rotation_input_text) # None
    /\ parse(rotation_input_text)[1] = I(transform.rotation_degrees)

\* C29: a committed rotation entry is never lost. After a frame that commits
\* an angle differing from the rotation, the rotation is the entered angle
\* normalized, whichever zoom button is clicked in the frame; and after every
\* frame that leaves the field without focus, its text denotes the rotation.
C29_RotationEntryApplied ==
    /\ RotationEntered =>
         /\ Congruent360(transform.rotation_degrees, EnteredAngle)
         /\ transform.rotation_degrees >= -180
         /\ transform.rotation_degrees <= 180
    /\ (last.op = "show" /\ ~rotation_input_focused) => TextDenotesRotation

----------------------------------------------------------------------------
(* lib.rs: the host-facing calls of ViewerHandle.                           *)

\* usize of the wasm32 target has 32 bits. A usize is written here as two
\* 16-bit halves <<high, low>>, since 2^32 is no integer of the checker.
USIZE_HALF == 65536

\* v as usize, for 0 <= v < 2^31.
as_usize(v) == <<v \div USIZE_HALF, v % USIZE_HALF>>

\* x * y modulo 2^16 for two 16-bit halves, by 8-bit digits.
MulHalf(x, y) ==
    LET x1 == x \div 256
        x0 == x % 256
        y1 == y \div 256
        y0 == y % 256
    IN  ((((x1 * y0 + x0 * y1) % 256) * 256) + x0 * y0) % USIZE_HALF

\* a * b on usize: the product modulo 2^32, and whether the mathematical
\* product has more than 32 bits.
usize_mul(a, b) ==
    LET a1 == a[2] \div 256
        a0 == a[2] % 256
        b1 == b[2] \div 256
        b0 == b[2] % 256
        low == (a1 * b0 + a0 * b1) * 256 + a0 * b0
        carry == (low \div USIZE_HALF) + a1 * b1
    IN  [value |-> <<(MulHalf(a[1], b[2]) + MulHalf(a[2], b[1]) + carry) % USIZE_HALF,
                     low % USIZE_HALF>>,
         overflow |-> \/ a[1] > 0 /\ b[1] > 0
                      \/ a[1] * b[2] >= USIZE_HALF
                      \/ a[2] * b[1] >= USIZE_HALF
                      \/ a[1] * b[2] + a[2] * b[1] + carry >= USIZE_HALF]

\* The builds of the crate: overflow checks on (the multiplication panics)
\* or off (it wraps).
Builds == {"overflow-checks", "wrapping"}

\* ArrayViewerWidget::set_image on the widget as one record.
widget_set_image(w, samples, image_width, image_height, integer_typed) ==
    LET range == ComputeRange(samples)
    IN  [w EXCEPT !.pixels = Some(samples),
                  !.width = image_width,
                  !.height = image_height,
                  !.min_val = range[1],
                  !.max_val = range[2],
                  !.original_min_val = range[1],
                  !.original_max_val = range[2],
                  !.min_limit_input_text =
                      IF integer_typed THEN format_integer(range[1])
                      ELSE format_scientific(range[1]),
                  !.max_limit_input_text =
                      IF integer_typed THEN format_integer(range[2])
                      ELSE format_scientific(range[2]),
                  !.texture_dirty = TRUE,
                  !.is_integer = integer_typed,
                  !.transform = SetImageTransform(w.transform, image_width, image_height,
                                                  w.width, w.height)]

\* The length check of ViewerHandle::set_image_data: "Ok", "Err", or "panic"
\* when the build checks the multiplication and it overflows.
set_image_data_result(len, image_width, image_height, build) ==
    LET expected_len == usize_mul(as_usize(image_width), as_usize(image_height))
    IN  IF expected_len.overflow /\ build = "overflow-checks" THEN "panic"
        ELSE IF as_usize(len) # expected_len.value THEN "Err"
        ELSE "Ok"

\* ViewerHandle::set_image_data once the buffer is converted to samples.
set_image_data(w, samples, image_width, image_height, integer_typed, build) ==
    IF set_image_data_result(Len(samples), image_width, image_height, build) = "Ok"
    THEN widget_set_image(w, samples, image_width, image_height, integer_typed)
    ELSE w

\* Buffers a host hands over: <<samples, width, height, is_integer>>, with
\* the right and with a wrong number of samples, and dimensions whose
\* product is 0, 2^32 - 1, 2^32 and 2^32 + 4.
HostBuffers ==
    ImageBuffers
    \cup {<<<<I(1), I(2), I(3), I(4)>>, 3, 2, FALSE>>,
          <<<<I(1), I(2), I(3), I(4)>>, 1, 2, TRUE>>,
          <<<<>>, 0, 5, FALSE>>,
          <<<<>>, 2, 2, FALSE>>,
          <<<<>>, 65536, 65536, FALSE>>,
          <<<<I(1), I(2), I(3), I(4)>>, 65537, 65535, FALSE>>,
          <<<<I(1), I(2), I(3), I(4)>>, 4, 1073741825, FALSE>>}

SetImageData ==
    \E b \in HostBuffers, build \in Builds :
        WidgetCall("setImageData",
                   <<Len(b[1]), b[2], b[3],
                     set_image_data_result(Len(b[1]), b[2], b[3], build)>>,
                   set_image_data(Widget, b[1], b[2], b[3], b[4], build))

\* Faulty variant of the operator below: "symmetric" keeps the stretch type.
set_stretch_mode_SymmetricKeepsLog(w, mode) ==
    CASE mode = "linear" -> set_stretch_type(set_symmetric(w, FALSE), "Linear")
      [] mode = "log" -> set_stretch_type(set_symmetric(w, FALSE), "Log")
      [] mode = "symmetric" -> set_symmetric(w, TRUE)
      [] OTHER -> w

\* ViewerHandle::set_stretch_mode
set_stretch_mode(w, mode) ==
    CASE mode = "linear" -> set_stretch_type(set_symmetric(w, FALSE), "Linear")
      [] mode = "log" -> set_stretch_type(set_symmetric(w, FALSE), "Log")
      [] mode = "symmetric" -> set_symmetric(set_stretch_type(w, "Linear"), TRUE)
      [] OTHER -> w

\* The mode names of the interface, and strings that are none of them.
StretchModes == {"linear", "log", "symmetric"}
ModeStrings == StretchModes \cup {"sqrt", "Log", ""}

SetStretchMode ==
    \E mode \in ModeStrings :
        WidgetCall("setStretchMode", <<mode>>, set_stretch_mode(Widget, mode))

NextHost ==
    \/ SetImageData
    \/ SetStretchMode
    \/ ShowRender

SpecHost == Init /\ [][NextHost]_vars

----------------------------------------------------------------------------
(* Claims about the host-facing calls.                                      *)

\* len = width * height as a product of integers, stated by division so that
\* no product is formed.
IsProduct(len, image_width, image_height) ==
    IF image_width = 0 \/ image_height = 0 THEN len = 0
    ELSE len % image_width = 0 /\ len \div image_width = image_height

\* C25: setImageData accepts a buffer only if its length is the product of
\* width and height as integers; when it does not accept, the widget is left
\* as it was; so the samples of a loaded image are width * height many.
C25_BufferMatchesDimensions ==
    /\ last.op = "setImageData" =>
         /\ last.args[4] = "Ok" => IsProduct(last.args[1], last.args[2], last.args[3])
         /\ last.args[4] # "Ok" =>
              /\ transform = last.pre.transform
              /\ width = last.pre.width /\ height = last.pre.height
              /\ has_image = last.pre.has_image
              /\ <<min_val, max_val>> = last.pre.value_range
              /\ Display = last.pre.display
    /\ has_image => IsProduct(Len(pixels[1]), width, height)

\* C30: through setStretchMode and the frames of show(), symmetric mode is
\* never on together with the Log stretch; setStretchMode with one of the
\* three mode names makes getStretchMode return that name, and with any other
\* string leaves the display state as it was.
C30_HostModesConsistent ==
    /\ ~(symmetric_mode /\ stretch_type = "Log")
    /\ last.op = "setStretchMode" =>
         IF last.args[1] \in StretchModes
         THEN get_stretch_mode(Widget) = last.args[1]
         ELSE Display = last.pre.display

\* setStretchMode("log") was called in symmetric mode.
C30_Witness ==
    /\ last.op = "setStretchMode" /\ last.args[1] = "log"
    /\ last.pre.display.symmetric_mode
    /\ get_stretch_mode(Widget) = "log"

\* setStretchMode was called with a string that is no mode name while the
\* mode was not the initial one.
C30_WitnessInvalid ==
    /\ last.op = "setStretchMode" /\ last.args[1] \notin StretchModes
    /\ get_stretch_mode(Widget) # "linear"

----------------------------------------------------------------------------
(* Repeated zooming: a host that keeps calling zoom_in, or keeps calling    *)
(* zoom_out, on a view it has zoomed and panned before.                     *)

\* Zoom levels the repetition starts from, all in [MIN_ZOOM, MAX_ZOOM]: for
\* zoom_in up to MAX_ZOOM, for zoom_out down to MIN_ZOOM, with levels at and
\* just inside the 0.0001 guard of zoom_around_point.
StartZoomsIn == {I(10), I(16), I(40), I(45), Q(499999, 10000), Q(999999, 20000), I(50)}
StartZoomsOut == {Q(1, 2), Q(1, 4), Q(1, 8), Q(1001, 10000), Q(2001, 20000), Q(1, 10)}
StartPans == {<<I(0), I(0)>>, <<I(1), I(-2)>>}

\* Zoom centres: the viewport centre (None) or the pointer.
ZoomCenters == {None} \cup {Some(p) : p \in ScreenPositions}

\* query.repeat is the call the host repeats, query.center the centre it
\* passes.
InitZoom ==
    /\ \E repeat \in {"zoom_in", "zoom_out"}, center \in ZoomCenters :
         /\ query = [repeat |-> repeat, center |-> center]
         /\ transform \in {[NewTransform EXCEPT !.zoom = z, !.pan_offset = p] :
                             z \in IF repeat = "zoom_in" THEN StartZoomsIn ELSE StartZoomsOut,
                             p \in StartPans}
    /\ pixels = None
    /\ width = 0
    /\ height = 0
    /\ min_val = I(0)
    /\ max_val = I(1)
    /\ original_min_val = I(0)
    /\ original_max_val = I(1)
    /\ is_integer = FALSE
    /\ min_limit_input_text = [fmt |-> "0", v |-> I(0)]
    /\ max_limit_input_text = [fmt |-> "1", v |-> I(1)]
    /\ texture_dirty = FALSE
    /\ UiIsNew
    /\ DisplayIsNew
    /\ last = [op |-> "new", args |-> <<>>,
               pre |-> [transform |-> NewTransform, width |-> 0, height |-> 0,
                        has_image |-> FALSE, display |-> NewDisplay,
                        value_range |-> <<I(0), I(1)>>,
                        texts |-> <<[fmt |-> "0", v |-> I(0)], [fmt |-> "0", v |-> I(0)],
                                    [fmt |-> "1", v |-> I(1)]>>]]
    /\ steps = 0

RepeatZoomIn ==
    /\ query.repeat = "zoom_in"
    /\ \E vp \in Viewports :
         \E t \in {zoom_in(transform, query.center, RectCenter(vp))} :
             /\ transform' = t
             /\ last' = Call("zoom_in", <<query.center, vp>>)
    /\ UNCHANGED <<imageVars, displayVars, uiVars, steps, query>>

RepeatZoomOut ==
    /\ query.repeat = "zoom_out"
    /\ \E vp \in Viewports :
         \E t \in {zoom_out(transform, query.center, RectCenter(vp))} :
             /\ transform' = t
             /\ last' = Call("zoom_out", <<query.center, vp>>)
    /\ UNCHANGED <<imageVars, displayVars, uiVars, steps, query>>

NextZoom ==
    \/ RepeatZoomIn
    \/ RepeatZoomOut

\* The host keeps calling: a call that would change the state is made.
SpecZoom ==
    InitZoom /\ [][NextZoom]_vars /\ WF_vars(RepeatZoomIn) /\ WF_vars(RepeatZoomOut)

----------------------------------------------------------------------------
(* Claims about repeated zooming.                                           *)

\* C26 as stated: repeated zoom_in brings the zoom to MAX_ZOOM, where it and
\* the pan stay; repeated zoom_out brings it to MIN_ZOOM, where they stay.
C26_ZoomReachesLimit ==
    /\ (query.repeat = "zoom_in") => <>[](transform.zoom = MAX_ZOOM)
    /\ (query.repeat = "zoom_out") => <>[](transform.zoom = MIN_ZOOM)
    /\ [][(transform.zoom = MAX_ZOOM /\ query.repeat = "zoom_in") => transform' = transform]_vars
    /\ [][(transform.zoom = MIN_ZOOM /\ query.repeat = "zoom_out") => transform' = transform]_vars

\* The zoom is at MAX_ZOOM or less than 0.0001 below it (at MIN_ZOOM or less
\* than 0.0001 above it).
NearMaxZoom ==
    QLe(transform.zoom, MAX_ZOOM) /\ QLt(QSub(MAX_ZOOM, transform.zoom), Q(1, 10000))
NearMinZoom ==
    QLe(MIN_ZOOM, transform.zoom) /\ QLt(QSub(transform.zoom, MIN_ZOOM), Q(1, 10000))

\* C26 amended: repeated zoom_in brings the zoom to MAX_ZOOM or to less than
\* 0.0001 below it, and from then on zoom_in changes neither zoom nor pan;
\* repeated zoom_out brings it to MIN_ZOOM or to less than 0.0001 above it,
\* and from then on zoom_out changes nothing.
C26_ZoomSaturates ==
    /\ (query.repeat = "zoom_in") => <>[]NearMaxZoom
    /\ (query.repeat = "zoom_out") => <>[]NearMinZoom
    /\ [][(NearMaxZoom /\ query.repeat = "zoom_in") => transform' = transform]_vars
    /\ [][(NearMinZoom /\ query.repeat = "zoom_out") => transform' = transform]_vars

\* zoom_in was repeated from a zoom below 40 with the pointer off centre, and
\* the zoom is MAX_ZOOM.
C26_Witness ==
    /\ last.op = "zoom_in"
    /\ QLt(last.pre.transform.zoom, MAX_ZOOM)
    /\ last.pre.transform.pan_offset # transform.pan_offset
    /\ transform.zoom = MAX_ZOOM

\* zoom_in was called at a zoom less than 0.0001 below MAX_ZOOM and changed
\* nothing.
C26_WitnessNear ==
    /\ last.op = "zoom_in"
    /\ last.pre.transform = transform
    /\ transform.zoom # MAX_ZOOM
    /\ NearMaxZoom

\* zoom_out was repeated down to MIN_ZOOM.
C26_WitnessOut ==
    /\ last.op = "zoom_out"
    /\ QLt(MIN_ZOOM, last.pre.transform.zoom)
    /\ transform.zoom = MIN_ZOOM

----------------------------------------------------------------------------
(* transform.rs: the rotation-aware conversion.                             *)

\* (cos, sin) of an angle in degrees, for the quarter turns, where both are
\* whole numbers.
CosSin(angle_degrees) ==
    CASE Rem(angle_degrees, 360) = 0 -> <<I(1), I(0)>>
      [] Rem(angle_degrees, 360) \in {90, -270} -> <<I(0), I(1)>>
      [] Rem(angle_degrees, 360) \in {180, -180} -> <<I(-1), I(0)>>
      [] Rem(angle_degrees, 360) \in {270, -90} -> <<I(0), I(-1)>>

rotate_point(point, center, angle_degrees) ==
    LET cos_a == CosSin(angle_degrees)[1]
        sin_a == CosSin(angle_degrees)[2]
        dx == QSub(point[1], center[1])
        dy == QSub(point[2], center[2])
    IN  <<QSub(QAdd(center[1], QMul(dx, cos_a)), QMul(dy, sin_a)),
          QAdd(QAdd(center[2], QMul(dx, sin_a)), QMul(dy, cos_a))>>

unrotate_point(point, center, angle_degrees) == rotate_point(point, center, -angle_degrees)

\* Faulty variant of the operator below: the relative position is clamped as
\* in screen_to_image.
screen_to_image_rotated_Clamped(t, screen_pos, image_rect, image_size) ==
    LET pivot_screen == pivot_to_screen(t, image_rect, image_size)
        unrotated_pos == unrotate_point(screen_pos, pivot_screen, t.rotation_degrees)
        rel_x == QClamp(QDiv(QSub(unrotated_pos[1], image_rect.min[1]),
                             RectWidth(image_rect)), I(0), RelMax)
        rel_y == QClamp(QSub(I(1), QDiv(QSub(unrotated_pos[2], image_rect.min[2]),
                                        RectHeight(image_rect))), I(0), RelMax)
        img_x == QFloor(QMul(rel_x, I(image_size[1])))
        img_y == QFloor(QMul(rel_y, I(image_size[2])))
    IN  IF img_x >= 0 /\ img_x < image_size[1] /\ img_y >= 0 /\ img_y < image_size[2]
        THEN Some(<<img_x, img_y>>)
        ELSE None

\* ViewTransform::screen_to_image_rotated: no containment test, no clamp.
screen_to_image_rotated(t, screen_pos, image_rect, image_size) ==
    LET pivot_screen == pivot_to_screen(t, image_rect, image_size)
        unrotated_pos == unrotate_point(screen_pos, pivot_screen, t.rotation_degrees)
        rel_x == QDiv(QSub(unrotated_pos[1], image_rect.min[1]), RectWidth(image_rect))
        rel_y == QSub(I(1), QDiv(QSub(unrotated_pos[2], image_rect.min[2]),
                                 RectHeight(image_rect)))
        img_x == QFloor(QMul(rel_x, I(image_size[1])))
        img_y == QFloor(QMul(rel_y, I(image_size[2])))
    IN  IF img_x >= 0 /\ img_x < image_size[1] /\ img_y >= 0 /\ img_y < image_size[2]
        THEN Some(<<img_x, img_y>>)
        ELSE None

\* Rotations by quarter turns, and pivots at and off the first pixel.
QuarterTurns == {0, 90, 180}
RotatedPivots == {<<I(0), I(0)>>, <<I(1), I(0)>>}

InitRotated ==
    /\ transform \in {[NewTransform EXCEPT !.rotation_degrees = r, !.pivot_point = p] :
                        r \in QuarterTurns, p \in RotatedPivots}
    /\ pixels = None
    /\ width = 0
    /\ height = 0
    /\ min_val = I(0)
    /\ max_val = I(1)
    /\ original_min_val = I(0)
    /\ original_max_val = I(1)
    /\ is_integer = FALSE
    /\ min_limit_input_text = [fmt |-> "0", v |-> I(0)]
    /\ max_limit_input_text = [fmt |-> "1", v |-> I(1)]
    /\ texture_dirty = FALSE
    /\ UiIsNew
    /\ DisplayIsNew
    /\ last = [op |-> "new", args |-> <<>>,
               pre |-> [transform |-> NewTransform, width |-> 0, height |-> 0,
                        has_image |-> FALSE, display |-> NewDisplay,
                        value_range |-> <<I(0), I(1)>>,
                        texts |-> <<[fmt |-> "0", v |-> I(0)], [fmt |-> "0", v |-> I(0)],
                                    [fmt |-> "1", v |-> I(1)]>>]]
    /\ steps = 0
    /\ query \in {[op |-> "input", rect |-> r, size |-> s, pos |-> p,
                   plain |-> None, result |-> None] :
                  r \in ConvRects, s \in ConvSizes, p \in ConvPositions}

\* screen_to_image_rotated(query.pos, ...) and screen_to_image(query.pos, ...)
\* on the same arguments.
ScreenToImageRotated ==
    /\ query.op = "input"
    /\ query' = [query EXCEPT
                   !.op = "screen_to_image_rotated",
                   !.plain = screen_to_image(query.pos, query.rect, query.size),
                   !.result = screen_to_image_rotated(transform, query.pos, query.rect,
                                                      query.size)]
    /\ UNCHANGED <<transform, imageVars, displayVars, uiVars, last, steps>>

NextRotated == ScreenToImageRotated

SpecRotated == InitRotated /\ [][NextRotated]_vars

----------------------------------------------------------------------------
(* Claims about the rotation-aware conversion.                              *)

\* The two conversions were applied to query.pos on an unrotated view.
UnrotatedQuery == query.op = "screen_to_image_rotated" /\ transform.rotation_degrees = 0

\* query.pos lies on the right or the top edge of the image rect.
OnFarEdge ==
    /\ RectContains(query.rect, query.pos)
    /\ query.pos[1] = query.rect.max[1] \/ query.pos[2] = query.rect.min[2]

\* C28 as stated: without rotation the rotation-aware conversion gives the
\* result of the plain one at every screen position.
C28_AgreesEverywhere == UnrotatedQuery => query.result = query.plain

\* C28 amended: without rotation the two conversions agree at every screen
\* position except those on the right or the top edge of the image rect,
\* where the plain one gives the last column or the top row and the
\* rotation-aware one gives None.
C28_AgreesOffFarEdges ==
    UnrotatedQuery =>
        IF OnFarEdge
        THEN query.result = None /\ query.plain # None
        ELSE query.result = query.plain

\* A position on the right edge of the rect, without rotation.
C28_Witness ==
    /\ UnrotatedQuery
    /\ query.pos[1] = query.rect.max[1]
    /\ query.plain # None
    /\ query.result = None

\* A position strictly inside the rect, without rotation.
C28_WitnessInside ==
    /\ UnrotatedQuery
    /\ ~OnFarEdge
    /\ query.result # None
    /\ query.result = query.plain

----------------------------------------------------------------------------
(* The range of a sample buffer.                                            *)

\* Samples: small numbers, the non-finite values, and numbers of the scales
\* 2^-60 and 2^60.
RangeSamples ==
    {I(0), I(5), I(-3), NaN, INFINITY, NEG_INFINITY,
     <<1, 1, -60>>, <<3, 1, -60>>, <<1, 1, 60>>, <<-1, 1, 60>>}

\* Samples per buffer.
MaxSamples == 3

RECURSIVE SampleBuffers(_)
SampleBuffers(n) ==
    IF n = 0 THEN {<<>>}
    ELSE SampleBuffers(n - 1)
           \cup {Append(b, v) : b \in {c \in SampleBuffers(n - 1) : Len(c) = n - 1},
                                v \in RangeSamples}

InitRange ==
    /\ transform = NewTransform
    /\ pixels = None
    /\ width = 0
    /\ height = 0
    /\ min_val = I(0)
    /\ max_val = I(1)
    /\ original_min_val = I(0)
    /\ original_max_val = I(1)
    /\ is_integer = FALSE
    /\ min_limit_input_text = [fmt |-> "0", v |-> I(0)]
    /\ max_limit_input_text = [fmt |-> "1", v |-> I(1)]
    /\ texture_dirty = FALSE
    /\ UiIsNew
    /\ DisplayIsNew
    /\ last = [op |-> "new", args |-> <<>>,
               pre |-> [transform |-> NewTransform, width |-> 0, height |-> 0,
                        has_image |-> FALSE, display |-> NewDisplay,
                        value_range |-> <<I(0), I(1)>>,
                        texts |-> <<[fmt |-> "0", v |-> I(0)], [fmt |-> "0", v |-> I(0)],
                                    [fmt |-> "1", v |-> I(1)]>>]]
    /\ steps = 0
    /\ query \in {[op |-> "input", samples |-> b, result |-> None] :
                    b \in SampleBuffers(MaxSamples)}

\* The range set_image computes for query.samples.
SetImageRange ==
    /\ query.op = "input"
    /\ query' = [query EXCEPT !.op = "set_image",
                              !.result = Some(ComputeRange(query.samples))]
    /\ UNCHANGED <<transform, imageVars, displayVars, uiVars, last, steps>>

NextRange == SetImageRange

SpecRange == InitRange /\ [][NextRange]_vars

----------------------------------------------------------------------------
(* Claims about the range.                                                  *)

\* The finite samples of the buffer of the query.
FiniteSamples == {query.samples[i] : i \in {j \in DOMAIN query.samples : is_finite(query.samples[j])}}

\* The least and the greatest of a non-empty set of finite samples.
Least(S) == CHOOSE v \in S : \A u \in S : ~f64_lt(u, v)
Greatest(S) == CHOOSE v \in S : \A u \in S : ~f64_lt(v, u)

\* C27: the range is (least finite sample, greatest finite sample); it is
\* (0, 1) when no sample is finite and (v, v + 1) when every finite sample is
\* v; and always min_val < max_val, both finite.
C27_RangeOfFiniteSamples ==
    query.op = "set_image" =>
        LET min == query.result[1][1]
            max == query.result[1][2]
        IN  /\ FiniteSamples = {} => (min = I(0) /\ max = I(1))
            /\ \A v \in FiniteSamples :
                 FiniteSamples = {v} => (min = v /\ max = f64_add_one(v))
            /\ Cardinality(FiniteSamples) > 1 =>
                 (min = Least(FiniteSamples) /\ max = Greatest(FiniteSamples))
            /\ is_finite(min) /\ is_finite(max)
            /\ f64_lt(min, max)

====
